---- MODULE Spec2Model ----
(***************************************************************************)
(* Job lifecycle, callback resolver and status read of the media           *)
(* processing workflow (src/lambda/*.py), as a state machine over the      *)
(* DynamoDB job table, its bda-invocation-index and Step Functions         *)
(* callbacks.                                                              *)
(***************************************************************************)
EXTENDS Integers, Sequences, FiniteSets, TLC

VARIABLES
    table,      \* DynamoDB job table: job_id -> item (attribute name -> value)
    gsi,        \* bda-invocation-index: the item versions visible through the index
    now,        \* clock read by datetime.utcnow() in the writing handlers
    issued,     \* invocation ARNs returned so far by invoke_data_automation_async
    callbacks,  \* SendTaskSuccess / SendTaskFailure calls made, in order
    writes,     \* the update_item requests issued in the last step
    path,       \* per job: how far it is along the failure-free workflow path
    rs,         \* the running bda_eventbridge_handler invocation
    tr,         \* the bda_trigger invocation between its invoke and its update
    stored,     \* the keys of the content objects put to S3 by store_content
    out         \* what the last handler invocation returned

vars == <<table, gsi, now, issued, callbacks, writes, path, rs, tr, stored, out>>

----------------------------------------------------------------------------
(* Bounds of the model *)

MaxClock == 4
MaxCallbacks == 2

(* Input domains *)

Jobs == {"j1"}
Users == {"u1", "u2"}
OpSeq == <<"op1", "op2">>    \* the analysis service's operation ids, in the order it issues them
OpIds == {OpSeq[i] : i \in 1..Len(OpSeq)}
Tokens == {"t1"}
None == "None"

----------------------------------------------------------------------------
(* Python helpers *)

\* the invocation ARN of an analysis operation (bda_eventbridge_handler.py:264)
ArnOf(id) == "arn:aws:bedrock:us-east-1:123:data-automation-invocation/" \o id

Arns == {ArnOf(id) : id \in OpIds}

\* `if x:` on a string-or-None value
Truthy(x) == x # None /\ x # ""

\* dict.get(key) with default None
Get(item, key) == IF key \in DOMAIN item THEN item[key] ELSE None

Has(item, key) == key \in DOMAIN item

Min(a, b) == IF a < b THEN a ELSE b

\* sep.join(parts)
RECURSIVE Join(_, _)
Join(parts, sep) ==
    IF parts = <<>> THEN ""
    ELSE IF Len(parts) = 1 THEN parts[1]
    ELSE parts[1] \o sep \o Join(Tail(parts), sep)

\* the lists of a list, concatenated
RECURSIVE Flatten(_)
Flatten(lists) == IF lists = <<>> THEN <<>> ELSE Head(lists) \o Flatten(Tail(lists))

\* s.startswith(p)
StartsWith(s, p) == Len(s) >= Len(p) /\ SubSeq(s, 1, Len(p)) = p

\* t in s
Contains(s, t) == \E i \in 1..(Len(s) - Len(t) + 1) : SubSeq(s, i, i + Len(t) - 1) = t

\* str(e) of a caught exception, as formatted into messages by f"...{e}"
str_e(kind) ==
    CASE kind = "ClientError" ->
            "An error occurred (ServiceUnavailable) when calling the operation: Service Unavailable"
      [] kind = "IndexError" -> "list index out of range"
      [] kind = "JSONDecodeError" -> "Expecting value: line 1 column 1 (char 0)"
      [] kind = "AttributeError" -> "object has no attribute 'get'"
      [] kind = "TypeError" -> "'<=' not supported between instances of 'int' and 'str'"
      [] OTHER -> kind

(* Values of unknown shape (events, decoded JSON) are tagged with their Python type:
   [t |-> "str", s |-> text] (with json |-> v when the text is JSON for v),
   [t |-> "int", n |-> k], [t |-> "dict", d |-> [key |-> value]], [t |-> "list"],
   [t |-> "none"]. *)

PyStr(x) == [t |-> "str", s |-> x]
PyJson(x, v) == [t |-> "str", s |-> x, json |-> v]
PyInt(k) == [t |-> "int", n |-> k]
PyDict(f) == [t |-> "dict", d |-> f]
PyList == [t |-> "list"]        \* a non-empty list
PyNone == [t |-> "none"]

\* `if v:` on a tagged value
PyTruthy(v) ==
    CASE v.t = "none" -> FALSE
      [] v.t = "str" -> v.s # ""
      [] v.t = "int" -> v.n # 0
      [] v.t = "dict" -> DOMAIN v.d # {}
      [] OTHER -> TRUE

\* d.get(key) on a dict
PyGet(d, key) == IF key \in DOMAIN d THEN d[key] ELSE PyNone

Raised(kind) == [raised |-> TRUE, kind |-> kind]
Returned(v) == [raised |-> FALSE, value |-> v]

\* json.loads(v)
json_loads(v) ==
    IF v.t # "str" THEN Raised("TypeError")
    ELSE IF "json" \in DOMAIN v THEN Returned(v.json)
    ELSE Raised("JSONDecodeError")

\* what s3_client.get_object gives for an object: its body, or a ClientError
S3Found(body) == [ok |-> TRUE, body |-> body]
S3Failed(code) == [ok |-> FALSE, code |-> code]

\* a call a handler made to a collaborator (boto3), and whether it succeeded
Call(api, ok) == [api |-> api, ok |-> ok]

----------------------------------------------------------------------------
(* DynamoDB *)

\* get_item: "Item" in response
ItemExists(t, j) == j \in DOMAIN t

\* a write that replaces the whole item, as put_item does
update_item_replace(t, j, upd) ==
    [k \in DOMAIN t \cup {j} |-> IF k = j THEN upd @@ [job_id |-> j] ELSE t[k]]

\* update_item with a SET expression: attribute-level upsert of the named attributes
update_item(t, j, upd) ==
    [k \in DOMAIN t \cup {j} |->
        IF k = j
        THEN upd @@ (IF j \in DOMAIN t THEN t[j] ELSE [job_id |-> j])
        ELSE t[k]]

(* The failure-free workflow path of a job: initialize, trigger, resolver,
   extract, complete, each invoked once, in this order, each succeeding.
   path[j] counts the steps of it taken so far; Off once j left the path. *)
WorkflowPath == <<"initialize", "trigger", "resolver", "extract", "complete">>
Off == Len(WorkflowPath) + 1

Step(p, j, op, code) ==
    IF op = "structure" \/ j \notin DOMAIN p THEN p
    ELSE [p EXCEPT ![j] = IF @ < Len(WorkflowPath) /\ WorkflowPath[@ + 1] = op /\ code = 200
                          THEN @ + 1 ELSE Off]

----------------------------------------------------------------------------
(* Environment: the record the upload API creates before the workflow runs.
   initialize_job.py:95-96 preserves its attributes; api_get_status.py:241
   reads its user_id. *)

UploadRecord(j, u) == [job_id |-> j, user_id |-> u, created_at |-> 0]

----------------------------------------------------------------------------
(* initialize_job.py *)

RAW_PREFIX == "raw-media"
PROCESSED_PREFIX == "processed-media"

\* the SET expression built by create_dynamodb_record
create_dynamodb_record(status, filename, raw_key, processed_key, ts) ==
    [status |-> status, filename |-> filename, updated_at |-> ts]
    @@ (IF Truthy(raw_key) THEN [raw_key |-> raw_key] ELSE <<>>)
    @@ (IF Truthy(processed_key) THEN [processed_key |-> processed_key] ELSE <<>>)

\* the SET expression of initialize_job.update_job_status
init_update_job_status(status, ts) == [status |-> status, updated_at |-> ts]

InitFaults == {"none", "create", "copy", "update"}

\* the event: EventBridge S3 format (key split on "/") or direct invocation
InitEvents ==
    [kind : {"s3"}, parts : {<<RAW_PREFIX, j, "a.mp4">> : j \in Jobs} \cup {<<RAW_PREFIX, "a.mp4">>}]
    \cup [kind : {"direct"}, filename : {"a.mp4", None}]

InitError(msg) == [op |-> "initialize", statusCode |-> 400, error |-> "InitializationError", message |-> msg]

\* a handler that logs a failed create_dynamodb_record and carries on
initialize_run_swallowing(j, filename, fault, ts) ==
    LET raw_key == RAW_PREFIX \o "/" \o j \o "/" \o filename
        processed_key == PROCESSED_PREFIX \o "/" \o j \o "/" \o filename
        w1 == create_dynamodb_record("INITIALIZING", filename, raw_key, processed_key, ts)
        w2 == init_update_job_status("PREPROCESSED", ts)
    IN  [writes |-> IF fault = "create" THEN <<w2>> ELSE <<w1, w2>>,
         calls |-> <<Call("update_item", fault # "create"), Call("copy_object", TRUE),
                     Call("update_item", TRUE)>>,
         resp |-> [op |-> "initialize", statusCode |-> 200,
                   body |-> [job_id |-> j, processed_key |-> processed_key,
                             status |-> "PREPROCESSED"]]]

\* a handler that logs a failed copy_media_file and marks the job PREPROCESSED
initialize_run_ignoring_copy(j, filename, fault, ts) ==
    LET raw_key == RAW_PREFIX \o "/" \o j \o "/" \o filename
        processed_key == PROCESSED_PREFIX \o "/" \o j \o "/" \o filename
    IN  [writes |-> <<create_dynamodb_record("INITIALIZING", filename, raw_key, processed_key, ts),
                      init_update_job_status("PREPROCESSED", ts)>>,
         calls |-> <<Call("update_item", TRUE), Call("copy_object", fault # "copy"),
                     Call("update_item", TRUE)>>,
         resp |-> [op |-> "initialize", statusCode |-> 200,
                   body |-> [job_id |-> j, processed_key |-> processed_key,
                             status |-> "PREPROCESSED"]]]

\* lambda_handler of initialize_job, from the job_id on: the update requests
\* applied, the collaborator calls made and the response
initialize_run(j, filename, fault, ts) ==
    LET raw_key == RAW_PREFIX \o "/" \o j \o "/" \o filename
        processed_key == PROCESSED_PREFIX \o "/" \o j \o "/" \o filename
        w1 == create_dynamodb_record("INITIALIZING", filename, raw_key, processed_key, ts)
        w2 == init_update_job_status("PREPROCESSED", ts)
    IN  CASE fault = "create" ->
                 [writes |-> <<>>,
                  calls |-> <<Call("update_item", FALSE)>>,
                  resp |-> InitError("DynamoDB write failed: " \o str_e("ClientError"))]
          [] fault = "copy" ->
                 [writes |-> <<w1>>,
                  calls |-> <<Call("update_item", TRUE), Call("copy_object", FALSE)>>,
                  resp |-> InitError("S3 copy failed: " \o str_e("ClientError"))]
          [] fault = "update" ->
                 [writes |-> <<w1>>,
                  calls |-> <<Call("update_item", TRUE), Call("copy_object", TRUE),
                              Call("update_item", FALSE)>>,
                  resp |-> InitError("DynamoDB update failed: " \o str_e("ClientError"))]
          [] OTHER ->
                 [writes |-> <<w1, w2>>,
                  calls |-> <<Call("update_item", TRUE), Call("copy_object", TRUE),
                              Call("update_item", TRUE)>>,
                  resp |-> [op |-> "initialize", statusCode |-> 200,
                            body |-> [job_id |-> j, processed_key |-> processed_key,
                                      status |-> "PREPROCESSED"]]]

RECURSIVE ApplyWrites(_, _, _)
ApplyWrites(t, j, ws) ==
    IF ws = <<>> THEN t ELSE ApplyWrites(update_item(t, j, Head(ws)), j, Tail(ws))

\* a handler invocation that issued the update requests ws on job j
Commit(j, op, ws, resp) ==
    /\ table' = ApplyWrites(table, j, ws)
    /\ writes' = [i \in 1..Len(ws) |-> [job_id |-> j, set |-> ws[i]]]
    /\ path' = IF ws = <<>> THEN path ELSE Step(path, j, op, resp.statusCode)
    /\ now' = IF ws = <<>> THEN now ELSE now + 1
    /\ out' = resp

\* a handler invocation that returned before touching the job table
Reject(resp) ==
    /\ UNCHANGED <<table, path, now>>
    /\ writes' = <<>>
    /\ out' = resp

Initialize(ev, fault) ==
    /\ UNCHANGED <<gsi, issued, callbacks, rs, tr, stored>>
    /\ LET ran(r) == r.resp @@ [calls |-> r.calls]
       IN  IF ev.kind = "s3"
           THEN IF Len(ev.parts) < 3
                THEN Reject(InitError("Invalid S3 key format: " \o Join(ev.parts, "/"))
                            @@ [calls |-> <<>>])
                ELSE Commit(ev.parts[2], "initialize",
                            initialize_run(ev.parts[2], ev.parts[3], fault, now + 1).writes,
                            ran(initialize_run(ev.parts[2], ev.parts[3], fault, now + 1)))
           ELSE IF ~Truthy(ev.filename)
                THEN Reject(InitError("Missing required field: filename or key")
                            @@ [calls |-> <<>>])
                ELSE \E j \in Jobs \ DOMAIN table :   \* generate_job_id(): a fresh uuid4
                        Commit(j, "initialize",
                               initialize_run(j, ev.filename, fault, now + 1).writes,
                               ran(initialize_run(j, ev.filename, fault, now + 1)))

----------------------------------------------------------------------------
(* bda_trigger.py *)

\* the SET expression built by update_job_with_bda_id
update_job_with_bda_id(bda_invocation_id, status, ts, task_token) ==
    IF Truthy(task_token)
    THEN [bda_invocation_id |-> bda_invocation_id, status |-> status,
          updated_at |-> ts, task_token |-> task_token]
    ELSE [bda_invocation_id |-> bda_invocation_id, status |-> status, updated_at |-> ts]

\* the invocationArn of the next operation the service starts
NextArn(started) == ArnOf(OpSeq[Min(Cardinality(started) + 1, Len(OpSeq))])

TriggerFaults == {"none", "invoke", "update"}

TriggerEvents ==
    [job_id : Jobs \cup {None},
     processed_key : {PROCESSED_PREFIX \o "/j/a.mp4", None},
     task_token : Tokens \cup {None}]

TriggerError(msg) == [op |-> "trigger", statusCode |-> 400, error |-> "BDATriggerError", message |-> msg]

\* a handler that takes every required field as given
missing_field_unchecked(event, field) == FALSE

\* `if not job_id:`, `if not processed_key:`
missing_field(event, field) == ~Truthy(event[field])

\* lambda_handler of bda_trigger
Trigger(ev, fault) ==
    /\ UNCHANGED <<gsi, callbacks, rs, tr, stored>>
    /\ LET seen(resp, calls) == resp @@ [event |-> ev, calls |-> calls]
           invoked(ok) == Call("invoke_data_automation_async", ok)
       IN  IF missing_field(ev, "job_id")
           THEN /\ Reject(seen(TriggerError("Missing required field: job_id"), <<>>))
                /\ UNCHANGED issued
           ELSE IF missing_field(ev, "processed_key")
           THEN /\ Reject(seen(TriggerError("Missing required field: processed_key"), <<>>))
                /\ UNCHANGED issued
           ELSE IF fault = "invoke"
           THEN /\ Reject(seen(TriggerError("BDA invocation failed: " \o str_e("ClientError")),
                               <<invoked(FALSE)>>))
                /\ UNCHANGED issued
           ELSE \E arn \in {NextArn(issued)} :    \* invoke_bda_job: the service starts a new operation
                   /\ Cardinality(issued) < Len(OpSeq)
                   /\ issued' = issued \cup {arn}
                   /\ IF fault = "update"
                      THEN Reject(seen(TriggerError("DynamoDB update failed: "
                                                    \o str_e("ClientError")),
                                       <<invoked(TRUE), Call("update_item", FALSE)>>))
                      ELSE Commit(ev.job_id, "trigger",
                                  <<update_job_with_bda_id(arn, "BDA_PROCESSING", now + 1,
                                                           ev.task_token)>>,
                                  seen([op |-> "trigger", statusCode |-> 200,
                                        body |-> [job_id |-> ev.job_id, bda_invocation_id |-> arn,
                                                  status |-> "BDA_PROCESSING"]],
                                       <<invoked(TRUE), Call("update_item", TRUE)>>))

(* The same handler in two steps, for what happens between them: up to the
   return of invoke_bda_job (the analysis is started), and from
   update_job_with_bda_id on (the record gets the ARN and the token). *)
TriggerInvoke(ev) ==
    /\ tr.pc = "idle"
    /\ Truthy(ev.job_id) /\ Truthy(ev.processed_key)
    /\ Cardinality(issued) < Len(OpSeq)
    /\ issued' = issued \cup {NextArn(issued)}
    /\ tr' = [pc |-> "invoked", job_id |-> ev.job_id, task_token |-> ev.task_token,
              arn |-> NextArn(issued)]
    /\ writes' = <<>>
    /\ UNCHANGED <<table, gsi, now, callbacks, path, rs, stored, out>>

TriggerUpdate ==
    /\ tr.pc = "invoked"
    /\ tr' = [pc |-> "idle"]
    /\ UNCHANGED <<gsi, issued, callbacks, rs, stored>>
    /\ Commit(tr.job_id, "trigger",
              <<update_job_with_bda_id(tr.arn, "BDA_PROCESSING", now + 1, tr.task_token)>>,
              [op |-> "trigger", statusCode |-> 200,
               body |-> [job_id |-> tr.job_id, bda_invocation_id |-> tr.arn,
                         status |-> "BDA_PROCESSING"],
               calls |-> <<Call("invoke_data_automation_async", TRUE),
                           Call("update_item", TRUE)>>])

----------------------------------------------------------------------------
(* extract_results.py *)

TRANSCRIPT_PREFIX == "transcripts"
BDA_OUTPUT_PREFIX == "bda-output"

(* The results document (result.json, parsed), each field with the value its
   .get(...) gives, the default when the key is absent:
     [video |-> [transcript |-> text, summary |-> text],
      chapters |-> <<[summary |-> text, frames |-> <<[text_words |-> <<text, ...>>], ...>>], ...>>,
      document |-> [description |-> text, summary |-> text],
      pages |-> <<[page_index |-> n, detected_page_number |-> n (optional), markdown |-> text], ...>>,
      entities |-> <<[type |-> text, summary |-> text], ...>>,
      image |-> [summary |-> text, text_words |-> <<text, ...>>],
      audio |-> [transcript |-> text or None]]
   and the content as the list `parts` that "\n\n".join turns into a string. *)

\* a section that is kept when its text is empty
Section_keep_empty(heading, text) == <<heading \o text>>

\* a section of the content: its heading and text, left out when the text is empty
Section(heading, text) == IF text = "" THEN <<>> ELSE <<heading \o text>>

\* the word texts that are not empty, space-joined
Words(text_words) == Join(SelectSeq(text_words, LAMBDA w : w # ""), " ")

\* "Chapter i:\n summary" of every chapter with a summary, i by enumerate(chapters, 1)
chapter_summaries(chapters) ==
    LET numbered == SelectSeq([i \in 1..Len(chapters) |-> i], LAMBDA i : chapters[i].summary # "")
    IN  [k \in 1..Len(numbered) |->
            "Chapter " \o ToString(numbered[k]) \o ":\n" \o chapters[numbered[k]].summary]

\* the text words of every frame of every chapter, in document order
video_text(chapters) ==
    Words(Flatten([i \in 1..Len(chapters) |->
            Flatten([f \in 1..Len(chapters[i].frames) |-> chapters[i].frames[f].text_words])]))

\* the VIDEO branch: parts, empty when no section has text
video_parts(result_data) ==
    LET sections ==
            Section("Audio Transcript:\n", result_data.video.transcript)
            \o Section("Video Summary:\n", result_data.video.summary)
            \o Section("Chapter Summaries:\n", Join(chapter_summaries(result_data.chapters), "\n\n"))
            \o Section("Text Detected in Video:\n", video_text(result_data.chapters))
    IN  IF sections = <<>> THEN <<>> ELSE <<"MODALITY: video">> \o sections

\* "=== Page n ===" and the markdown of every page that has markdown
page_contents(pages) ==
    LET shown == SelectSeq(pages, LAMBDA page : page.markdown # "")
        number(page) == IF "detected_page_number" \in DOMAIN page
                        THEN page.detected_page_number ELSE page.page_index + 1
    IN  [k \in 1..Len(shown) |->
            "=== Page " \o ToString(number(shown[k])) \o " ===\n\n" \o shown[k].markdown]

\* "- summary" of every FIGURE entity that has a summary
figure_descriptions(entities) ==
    LET figures == SelectSeq(entities, LAMBDA e : e.type = "FIGURE" /\ e.summary # "")
    IN  [k \in 1..Len(figures) |-> "- " \o figures[k].summary]

PageRule == "=================================================="    \* '=' * 50

\* the DOCUMENT branch
document_parts(result_data) ==
    LET pages == page_contents(result_data.pages)
        sections ==
            Section("Document Description (Brief):\n", result_data.document.description)
            \o Section("Document Summary:\n", result_data.document.summary)
            \o Section("Figure Descriptions:\n",
                       Join(figure_descriptions(result_data.entities), "\n\n"))
            \o (IF pages = <<>> THEN <<>>
                ELSE <<PageRule \o "\nDOCUMENT CONTENT BY PAGE\n" \o PageRule \o "\n\n"
                       \o Join(pages, "\n\n")>>)
    IN  IF sections = <<>> THEN <<>> ELSE <<"MODALITY: document">> \o sections

\* the IMAGE branch
image_parts(result_data) ==
    LET sections ==
            Section("Image Summary:\n", result_data.image.summary)
            \o Section("Extracted Text (OCR):\n", Words(result_data.image.text_words))
    IN  IF sections = <<>> THEN <<>> ELSE <<"MODALITY: image">> \o sections

\* text.strip() of the transcripts used here
strip(text) == IF text = " " THEN "" ELSE text

\* the AUDIO branch, also the fallback of the branches above
audio_parts(result_data) ==
    LET audio_transcript == result_data.audio.transcript
    IN  IF Truthy(audio_transcript) /\ strip(audio_transcript) # ""
        THEN <<"MODALITY: audio", "Audio Transcript:\n" \o audio_transcript>>
        ELSE <<>>

\* str.upper() of the modality tags used here
upper(text) ==
    CASE text = "video" -> "VIDEO"
      [] text = "document" -> "DOCUMENT"
      [] text = "image" -> "IMAGE"
      [] text = "audio" -> "AUDIO"
      [] OTHER -> text

\* `if (semantic_modality == "AUDIO" or not content) and not content`
fallback_parts(primary, result_data) ==
    IF primary = <<>> THEN audio_parts(result_data) ELSE primary

\* the dispatch on the modality declared in the metadata: the content, or ExtractionError
extract_content(semantic_modality, result_data) ==
    LET primary == CASE semantic_modality = "VIDEO" -> video_parts(result_data)
                     [] semantic_modality = "DOCUMENT" -> document_parts(result_data)
                     [] semantic_modality = "IMAGE" -> image_parts(result_data)
                     [] OTHER -> <<>>
        parts == fallback_parts(primary, result_data)
    IN  IF parts = <<>>
        THEN [raised |-> TRUE, kind |-> "ExtractionError",
              message |-> "No extractable content found in result.json for modality "
                          \o semantic_modality]
        ELSE Returned(Join(parts, "\n\n"))

ExtractionFailed(message) == [raised |-> TRUE, kind |-> "ExtractionError", message |-> message]

\* the index of the first "/" of text, 0 when it has none
FirstSlash(text) ==
    LET at == {i \in 1..Len(text) : SubSeq(text, i, i) = "/"}
    IN  IF at = {} THEN 0 ELSE CHOOSE i \in at : \A k \in at : i <= k

(* extract_content_from_metadata. metadata.output is how far the path to
   standard_output_path goes: [at |-> "none"] (no output_metadata),
   [at |-> "asset"] (no segment_metadata), [at |-> "segment"] (no
   standard_output_path) or [at |-> "path", uri |-> the path]; result is what
   get_object gives for result.json. Returns the content and result_key. *)
extract_content_from_metadata(metadata, result) ==
    IF metadata.output.at = "none" THEN ExtractionFailed("No output_metadata found in job_metadata")
    ELSE IF metadata.output.at = "asset" THEN ExtractionFailed("No segment_metadata found")
    ELSE IF metadata.output.at = "segment" THEN ExtractionFailed("No standard_output_path found")
    ELSE LET standard_output_path == metadata.output.uri
             rest == SubSeq(standard_output_path, 6, Len(standard_output_path))
             result_key == SubSeq(rest, FirstSlash(rest) + 1, Len(rest))
         IN  IF ~StartsWith(standard_output_path, "s3://")
             THEN ExtractionFailed("Invalid S3 URI: " \o standard_output_path)
             ELSE IF FirstSlash(rest) = 0       \* s3_parts[1]
             THEN ExtractionFailed("Invalid metadata structure: " \o str_e("IndexError"))
             ELSE IF ~result.ok
             THEN ExtractionFailed("Failed to download result.json: " \o str_e("ClientError"))
             ELSE IF json_loads(result.body).raised
             THEN ExtractionFailed("Invalid JSON in result.json: " \o str_e("JSONDecodeError"))
             ELSE LET content == extract_content(upper(metadata.semantic_modality),
                                                 json_loads(result.body).value)
                  IN  IF content.raised THEN content
                      ELSE Returned([content |-> content.value, result_key |-> result_key])

\* the SET expression built by extract_results.update_job_status
extract_update_job_status(status, transcript_key, ts, bda_output_key) ==
    [status |-> status, transcript_key |-> transcript_key, updated_at |-> ts]
    @@ (IF Truthy(bda_output_key) THEN [bda_output_key |-> bda_output_key] ELSE <<>>)

ExtractError(msg) == [op |-> "extract", statusCode |-> 400, error |-> "ExtractionError", message |-> msg]

\* the collaborator calls that can fail: list/get of the metadata, put of the content, the update
ExtractionFaults == {"none", "retrieve", "store", "update"}

\* the listing of the job's output prefix has no job_metadata.json
NoMetadata == [missing |-> TRUE]

\* a put_object that reports success and keeps nothing
store_content_lost(objects, job_id, fault) == objects

\* store_content: the content store after put_object, which a ClientError leaves as it was
store_content(objects, job_id, fault) ==
    IF fault = "store" THEN objects
    ELSE objects \cup {TRANSCRIPT_PREFIX \o "/" \o job_id \o "/transcript.txt"}

\* extract_content_from_metadata gets far enough to call get_object for result.json
result_fetched(metadata) ==
    /\ metadata.output.at = "path"
    /\ StartsWith(metadata.output.uri, "s3://")
    /\ FirstSlash(SubSeq(metadata.output.uri, 6, Len(metadata.output.uri))) # 0

(* lambda_handler of extract_results: metadata is job_metadata.json as
   retrieve_bda_metadata found and parsed it, NoMetadata when the listing has
   no such file; result is result.json in S3 *)
ExtractResults(job_id, metadata, result, fault) ==
    /\ UNCHANGED <<gsi, issued, callbacks, rs, tr>>
    /\ stored' = IF /\ Truthy(job_id)
                    /\ fault # "retrieve"
                    /\ "missing" \notin DOMAIN metadata
                    /\ ~extract_content_from_metadata(metadata, result).raised
                 THEN store_content(stored, job_id, fault)
                 ELSE stored
    /\ LET seen(resp, calls) ==
               resp @@ [job |-> job_id, metadata |-> metadata, result |-> result,
                        fault |-> fault, calls |-> calls]
           extracted == extract_content_from_metadata(metadata, result)
           content_key == TRANSCRIPT_PREFIX \o "/" \o job_id \o "/transcript.txt"
           retrieved == <<Call("list_objects_v2", TRUE), Call("get_object", TRUE)>>
           fetched == retrieved \o <<Call("get_object", TRUE)>>
       IN  IF ~Truthy(job_id)
           THEN Reject(seen(ExtractError("Missing required field: job_id"), <<>>))
           ELSE IF fault = "retrieve"
           THEN Reject(seen(ExtractError("Failed to retrieve metadata: " \o str_e("ClientError")),
                            <<Call("list_objects_v2", FALSE)>>))
           ELSE IF "missing" \in DOMAIN metadata
           THEN Reject(seen(ExtractError("job_metadata.json not found in BDA output for job "
                                         \o job_id),
                            <<Call("list_objects_v2", TRUE)>>))
           ELSE IF extracted.raised
           THEN Reject(seen(ExtractError(extracted.message),
                            retrieved \o (IF result_fetched(metadata)
                                          THEN <<Call("get_object", result.ok)>> ELSE <<>>)))
           ELSE IF fault = "store"
           THEN Reject(seen(ExtractError("Failed to store content: " \o str_e("ClientError")),
                            fetched \o <<Call("put_object", FALSE)>>))
           ELSE IF fault = "update"
           THEN Reject(seen(ExtractError("DynamoDB update failed: " \o str_e("ClientError")),
                            fetched \o <<Call("put_object", TRUE), Call("update_item", FALSE)>>))
           ELSE Commit(job_id, "extract",
                       <<extract_update_job_status("EXTRACTING_RESULTS", content_key, now + 1,
                                                   extracted.value.result_key)>>,
                       seen([op |-> "extract", statusCode |-> 200,
                             body |-> [job_id |-> job_id, content |-> extracted.value.content,
                                       transcript_key |-> content_key,
                                       status |-> "EXTRACTING_RESULTS"]],
                            fetched \o <<Call("put_object", TRUE), Call("update_item", TRUE)>>))

\* a results document with no content at all
EmptyResult ==
    [video |-> [transcript |-> "", summary |-> ""], chapters |-> <<>>,
     document |-> [description |-> "", summary |-> ""], pages |-> <<>>, entities |-> <<>>,
     image |-> [summary |-> "", text_words |-> <<>>], audio |-> [transcript |-> None]]

\* job_metadata.json of a video job whose result.json is at result_key
MetadataAt(result_key) ==
    [semantic_modality |-> "VIDEO", output |-> [at |-> "path", uri |-> "s3://bucket/" \o result_key]]

\* result.json holding the results document
ResultJson(result_data) == S3Found(PyJson("result.json", result_data))

ExtractFaults == {"none", "extraction", "store", "update"}

(* the extract step of the lifecycle: a video whose transcript is "hello", or
   (fault "extraction") a results document without content *)
Extract(job_id, result_key, fault) ==
    ExtractResults(job_id, MetadataAt(result_key),
                   ResultJson(IF fault = "extraction" THEN EmptyResult
                              ELSE [EmptyResult EXCEPT !.video.transcript = "hello"]),
                   IF fault = "extraction" THEN "none" ELSE fault)

----------------------------------------------------------------------------
(* Environment: the step between extract and complete that stores the
   structured data and records its key (complete_job.py:202 and
   api_get_status.py:264 read structured_data_key) *)

StoreStructuredData(j) ==
    /\ ItemExists(table, j)
    /\ UNCHANGED <<gsi, issued, callbacks, rs, tr, stored>>
    /\ Commit(j, "structure",
              <<[structured_data_key |-> "results/" \o j \o "/structured_data.json",
                 updated_at |-> now + 1]>>,
              [op |-> "structure", statusCode |-> 200])

----------------------------------------------------------------------------
(* complete_job.py *)

\* a completion write that leaves out the completion timestamp
update_job_completion_no_timestamp(ts) ==
    [status |-> "COMPLETED", updated_at |-> ts]

\* the SET expression of update_job_completion
update_job_completion(ts) ==
    [status |-> "COMPLETED", completed_at |-> ts, updated_at |-> ts]

CompleteFaults == {"none", "get", "update"}

CompletionError(msg) == [op |-> "complete", statusCode |-> 400, error |-> "CompletionError", message |-> msg]

\* a lookup that takes every job for a recorded one
get_job_details_unchecked(t, job_id) == TRUE

\* get_job_details: whether get_item returned an Item
get_job_details(t, job_id) == ItemExists(t, job_id)

\* lambda_handler of complete_job
Complete(job_id, fault) ==
    LET seen(resp, calls) == resp @@ [job |-> job_id, calls |-> calls]
    IN  /\ UNCHANGED <<gsi, issued, callbacks, rs, tr, stored>>
        /\ IF ~Truthy(job_id)
           THEN Reject(seen(CompletionError("Missing required field: job_id"), <<>>))
           ELSE IF fault = "get"
           THEN Reject(seen(CompletionError("Failed to retrieve job: " \o str_e("ClientError")),
                            <<Call("get_item", FALSE)>>))
           ELSE IF ~get_job_details(table, job_id)
           THEN Reject(seen(CompletionError("Job not found: " \o job_id),
                            <<Call("get_item", TRUE)>>))
           ELSE IF fault = "update"
           THEN Reject(seen(CompletionError("DynamoDB update failed: " \o str_e("ClientError")),
                            <<Call("get_item", TRUE), Call("update_item", FALSE)>>))
           ELSE Commit(job_id, "complete", <<update_job_completion(now + 1)>>,
                       seen([op |-> "complete", statusCode |-> 200,
                             body |-> [job_id |-> job_id, status |-> "COMPLETED",
                                       message |-> "Job completed successfully"]],
                            <<Call("get_item", TRUE), Call("update_item", TRUE)>>))

----------------------------------------------------------------------------
(* handle_error.py *)

\* extract_job_id: the ordered fallbacks
extract_job_id(event) ==
    LET direct == PyGet(event, "job_id")
        body0 == PyGet(event, "body")
        bodyL == IF body0.t = "str" THEN json_loads(body0) ELSE Returned(body0)
        body == IF bodyL.raised THEN body0 ELSE bodyL.value
        inBody == IF PyTruthy(body0) /\ body.t = "dict" THEN PyGet(body.d, "job_id") ELSE PyNone
        error == PyGet(event, "error")
        inError == IF PyTruthy(error) /\ error.t = "dict" THEN PyGet(error.d, "job_id") ELSE PyNone
        cause == PyGet(event, "Cause")
        causeL == json_loads(cause)
    IN  IF PyTruthy(direct) THEN Returned(direct)
        ELSE IF PyTruthy(inBody) THEN Returned(inBody)
        ELSE IF PyTruthy(inError) THEN Returned(inError)
        ELSE IF ~PyTruthy(cause) THEN Returned(PyStr("unknown"))
        ELSE IF causeL.raised
             THEN IF causeL.kind = "JSONDecodeError" THEN Returned(PyStr("unknown"))
                  ELSE causeL
        ELSE IF causeL.value.t # "dict" THEN Raised("AttributeError")
        ELSE IF PyTruthy(PyGet(causeL.value.d, "job_id"))
             THEN Returned(PyGet(causeL.value.d, "job_id"))
        ELSE Returned(PyStr("unknown"))

\* extract_error_info
extract_error_info(event, ts) ==
    LET type == IF "errorType" \in DOMAIN event THEN [error_type |-> event["errorType"]]
                ELSE IF "error" \in DOMAIN event THEN [error_type |-> event["error"]]
                ELSE IF "Error" \in DOMAIN event THEN [error_type |-> event["Error"]]
                ELSE <<>>
        message == IF "Cause" \in DOMAIN event THEN event["Cause"]
                   ELSE IF "message" \in DOMAIN event THEN event["message"]
                   ELSE IF "errorMessage" \in DOMAIN event THEN event["errorMessage"]
                   ELSE PyStr("Unknown error")
        trace == IF "stackTrace" \in DOMAIN event THEN [stack_trace |-> event["stackTrace"]] ELSE <<>>
        status_code == PyGet(event, "statusCode")
        base == [timestamp |-> ts, error_message |-> message] @@ type @@ trace
    IN  IF PyTruthy(status_code)
        THEN IF status_code.t # "int" THEN Raised("TypeError")    \* 400 <= status_code
             ELSE Returned([status_code |-> status_code,
                            error_category |-> IF 400 <= status_code.n /\ status_code.n < 500
                                               THEN "client_error" ELSE "server_error"] @@ base)
        ELSE Returned([status_code |-> PyInt(500), error_category |-> "server_error"] @@ base)

\* a failure write that leaves updated_at as it was
failure_update_no_refresh(error_info, ts) ==
    [status |-> "FAILED", error_info |-> error_info, failed_at |-> ts]

\* a failure write that sets the status alone
failure_update_status_only(error_info, ts) ==
    [status |-> "FAILED", updated_at |-> ts]

\* the SET expression of update_job_failure
failure_update(error_info, ts) ==
    [status |-> "FAILED", error_info |-> error_info, failed_at |-> ts, updated_at |-> ts]

ErrorFaults == {"none", "get", "update"}

\* an update whose ClientError is raised to the handler instead of being logged
update_job_failure_raising(t, job_id, error_info, ts, fault) ==
    LET job_exists == fault # "get" /\ ItemExists(t, job_id)
    IN  IF ~job_exists /\ job_id = "unknown" THEN Returned(<<>>)
        ELSE IF fault = "update" THEN Raised("ErrorHandlerError")
        ELSE Returned(<<failure_update(error_info, ts)>>)

\* update_job_failure: the update requests it gets applied, or the exception it raises
update_job_failure(t, job_id, error_info, ts, fault) ==
    LET job_exists == fault # "get" /\ ItemExists(t, job_id)
    IN  IF ~job_exists /\ job_id = "unknown" THEN Returned(<<>>)
        ELSE IF fault = "update" THEN Returned(<<>>)       \* ClientError: logged, not raised
        ELSE Returned(<<failure_update(error_info, ts)>>)

\* a handler that lets the exception out instead of answering
SentinelResponse_propagated(ts, e) == [op |-> "handle_error", raised |-> "Exception"]

\* a handler that calls update_job_failure whatever the job_id
job_known_always(job_id) == TRUE

\* `if job_id != "unknown"`
job_known(job_id) == job_id # "unknown"

\* the response of `except Exception as e`
SentinelResponse(ts, e) ==
    [op |-> "handle_error", statusCode |-> 500,
     body |-> [job_id |-> "unknown", status |-> "FAILED",
               error_info |-> [error_type |-> PyStr("ErrorHandlerFailure"),
                               error_message |-> PyStr("Error handler failed: " \o str_e(e)),
                               error_category |-> "server_error",
                               timestamp |-> ts],
               message |-> "Critical error: error handler failed"]]

\* the normal response built from the recovered job_id and the classified error_info
ErrorResponse(job_id, ei) ==
    [op |-> "handle_error", statusCode |-> ei.status_code.n,
     body |-> [job_id |-> job_id, status |-> "FAILED",
               error_info |->
                  [error_type |-> IF "error_type" \in DOMAIN ei
                                  THEN ei.error_type ELSE PyStr("UnknownError"),
                   error_message |-> ei.error_message,
                   error_category |-> ei.error_category,
                   timestamp |-> ei.timestamp],
               message |-> [prefix |-> "Job failed: ", text |-> ei.error_message]]]

(* lambda_handler of handle_error on the event (a tagged value): the update
   requests and the response, with what it did on the way: the result of
   extract_job_id (recovered), the number of get_item calls (reads) and
   whether it called update_job_failure (attempted). *)
handle_error_run(t, event, fault, ts) ==
    LET failed(jid, e) == [job |-> "unknown", writes |-> <<>>, reads |-> 0, attempted |-> FALSE,
                           recovered |-> jid, resp |-> SentinelResponse(ts, e)]
    IN  IF event.t # "dict"                                            \* event.get
        THEN failed(Raised("AttributeError"), "AttributeError")
        ELSE LET jid == extract_job_id(event.d)
                 info == extract_error_info(event.d, ts)
             IN  IF jid.raised THEN failed(jid, jid.kind)
                 ELSE IF info.raised THEN failed(jid, info.kind)
                 ELSE IF ~job_known(jid.value.s)
                 THEN [job |-> "unknown", writes |-> <<>>, reads |-> 0, attempted |-> FALSE,
                       recovered |-> jid, resp |-> ErrorResponse("unknown", info.value)]
                 ELSE LET upd == update_job_failure(t, jid.value.s, info.value, ts, fault)
                      IN  IF upd.raised
                          THEN [job |-> jid.value.s, writes |-> <<>>, reads |-> 1,
                                attempted |-> TRUE, recovered |-> jid,
                                resp |-> SentinelResponse(ts, upd.kind)]
                          ELSE [job |-> jid.value.s, writes |-> upd.value, reads |-> 1,
                                attempted |-> TRUE, recovered |-> jid,
                                resp |-> ErrorResponse(jid.value.s, info.value)]

\* the failure events of the lifecycle: a known job, with or without a status code
ErrorEvents ==
    {PyDict([job_id |-> PyStr(j), Error |-> PyStr("States.TaskFailed")]) : j \in Jobs}
    \cup {PyDict([job_id |-> PyStr(j), statusCode |-> PyInt(404)]) : j \in Jobs}
    \cup {PyDict([Error |-> PyStr("States.TaskFailed")])}

HandleError(event, fault) ==
    /\ UNCHANGED <<gsi, issued, callbacks, rs, tr, stored>>
    /\ LET r == handle_error_run(table, event, fault, now + 1)
           resp == [event |-> event, fault |-> fault, recovered |-> r.recovered,
                    reads |-> r.reads, attempted |-> r.attempted] @@ r.resp
       IN  IF r.writes = <<>> THEN Reject(resp)
           ELSE Commit(r.job, "handle_error", r.writes, resp)

----------------------------------------------------------------------------
(* DynamoDB: the bda-invocation-index, eventually consistent with the table *)

Indexed(item) == [a \in DOMAIN item \cap {"job_id", "bda_invocation_id", "task_token"} |-> item[a]]

\* the index as it would be with every write propagated
IndexOf(t) == [j \in {k \in DOMAIN t : Has(t[k], "bda_invocation_id")} |-> Indexed(t[j])]

\* the index catches up with the table's item j
IndexSync(j) ==
    /\ gsi # [k \in (DOMAIN gsi \ {j}) \cup (DOMAIN IndexOf(table) \cap {j}) |->
                IF k = j THEN IndexOf(table)[j] ELSE gsi[k]]
    /\ gsi' = [k \in (DOMAIN gsi \ {j}) \cup (DOMAIN IndexOf(table) \cap {j}) |->
                IF k = j THEN IndexOf(table)[j] ELSE gsi[k]]
    /\ writes' = <<>>
    /\ UNCHANGED <<table, now, issued, callbacks, path, rs, tr, stored, out>>

\* table.query(IndexName="bda-invocation-index", bda_invocation_id = arn)
Query(g, arn) == {g[j] : j \in {k \in DOMAIN g : g[k].bda_invocation_id = arn}}

----------------------------------------------------------------------------
(* bda_eventbridge_handler.py *)

max_attempts == 5
base_delay == 500        \* milliseconds
max_delay == 8000

\* a delay that grows by base_delay each attempt instead of doubling
Backoff_linear(attempt) == Min(base_delay * attempt, max_delay)

\* delay = min(base_delay * (2 ** (attempt - 1)), max_delay)
Backoff(attempt) == Min(base_delay * (2 ^ (attempt - 1)), max_delay)

SUCCEEDED == "Bedrock Data Automation Job Succeeded"
FAILED_TYPE == "Bedrock Data Automation Job Failed With Client Error"

ResolverEvents == [detail_type : {SUCCEEDED, FAILED_TYPE, None}, job_id : OpIds \cup {None}]

Idle == [pc |-> "idle"]

\* what the handler returned, with what get_task_token did on the way
ResolverReply(code, r, sent) ==
    [op |-> "resolver", statusCode |-> code, detail_type |-> r.detail_type,
     queries |-> r.queries, sleeps |-> r.sleeps, results |-> r.results, sent |-> sent]

\* lambda_handler up to the call of get_task_token
ResolverStart(ev) ==
    /\ rs.pc = "idle"
    /\ UNCHANGED <<table, gsi, now, issued, callbacks, path, tr, stored>>
    /\ writes' = <<>>
    /\ IF ~Truthy(ev.job_id)
       THEN /\ rs' = rs
            /\ out' = ResolverReply(400, [detail_type |-> ev.detail_type, queries |-> 0,
                                         sleeps |-> <<>>, results |-> <<>>], "none")
       ELSE /\ rs' = [pc |-> "lookup", detail_type |-> ev.detail_type, arn |-> ArnOf(ev.job_id),
                      attempt |-> 1, queries |-> 0, sleeps |-> <<>>, results |-> <<>>]
            /\ out' = [op |-> "resolver_running"]

\* what table.query gave: a ClientError, no row, or the first row with or without its token
QueryResult(items, fault) ==
    IF fault = "query" THEN {"error"}
    ELSE IF items = {} THEN {"empty"}
    ELSE {IF Truthy(Get(item, "task_token")) THEN "row" ELSE "row_no_token" : item \in items}

\* a loop that sleeps and retries once more after the last allowed attempt
lookup_step_extra_retry(result, attempt) ==
    CASE result = "error" -> "raise"
      [] result = "row" -> "return"
      [] result = "row_no_token" -> "raise"
      [] result = "empty" /\ attempt <= max_attempts -> "sleep"
      [] OTHER -> "raise"

\* a loop that treats a failed query like a row not yet visible
lookup_step_retry_error(result, attempt) ==
    CASE result = "row" -> "return"
      [] result = "row_no_token" -> "raise"
      [] result \in {"empty", "error"} /\ attempt < max_attempts -> "sleep"
      [] OTHER -> "raise"

\* a loop that treats a row without task_token like a row not yet visible
lookup_step_retry_missing_token(result, attempt) ==
    CASE result = "error" -> "raise"
      [] result = "row" -> "return"
      [] result \in {"empty", "row_no_token"} /\ attempt < max_attempts -> "sleep"
      [] OTHER -> "raise"

\* one iteration of get_task_token's loop, on the query's result
lookup_step(result, attempt) ==
    CASE result = "error" -> "raise"                 \* DynamoDB query failed
      [] result = "row" -> "return"
      [] result = "row_no_token" -> "raise"          \* Task token not found
      [] result = "empty" /\ attempt < max_attempts -> "sleep"
      [] OTHER -> "raise"                            \* No job found after max_attempts

\* the handler after get_task_token returned: send_task_success / send_task_failure
send_callback(detail_type, item, fault) ==
    LET call(kind) == [kind |-> kind, token |-> item.task_token, job_id |-> item.job_id,
                       delivered |-> fault # "send"]
    IN  IF detail_type = None
        THEN [calls |-> <<>>, code |-> 500]         \* "Succeeded" in None raises TypeError
        ELSE IF detail_type = SUCCEEDED
        THEN [calls |-> <<call("success")>>, code |-> IF fault = "send" THEN 400 ELSE 200]
        ELSE [calls |-> <<call("failure")>>, code |-> IF fault = "send" THEN 400 ELSE 200]

\* a resolver that removes the task token of the rows it looked up
resolver_updates_consuming(t, arn) ==
    [j \in DOMAIN t |->
        IF Get(t[j], "bda_invocation_id") = arn
        THEN [a \in DOMAIN t[j] \ {"task_token"} |-> t[j][a]]
        ELSE t[j]]

\* the job table after the resolver ran: it calls table.query and nothing else on the table
resolver_updates(t, arn) == t

\* one iteration of get_task_token's loop and, when it ends the lookup, the rest of the handler
ResolverAttempt(fault) ==
    /\ rs.pc = "lookup"
    /\ writes' = <<>>
    /\ table' = resolver_updates(table, rs.arn)
    /\ UNCHANGED <<gsi, now, issued, tr, stored>>
    /\ \E result \in QueryResult(Query(gsi, rs.arn), fault) :
        LET q == [rs EXCEPT !.queries = @ + 1, !.results = Append(@, result)]
            next == lookup_step(result, rs.attempt)
        IN  CASE next = "sleep" ->
                    /\ rs' = [q EXCEPT !.sleeps = Append(@, Backoff(rs.attempt)), !.attempt = @ + 1]
                    /\ UNCHANGED <<callbacks, path, out>>
              [] next = "raise" ->
                    /\ out' = ResolverReply(400, q, "none")
                    /\ rs' = Idle
                    /\ UNCHANGED <<callbacks, path>>
              [] next = "return" ->
                    \E item \in Query(gsi, rs.arn) :
                        LET c == send_callback(rs.detail_type, item, fault)
                        IN  /\ Len(callbacks) + Len(c.calls) <= MaxCallbacks
                            /\ callbacks' = callbacks \o c.calls
                            /\ path' = IF c.calls = <<>> THEN path
                                       ELSE Step(path, item.job_id, "resolver",
                                                 IF c.calls[1].kind = "success" THEN c.code ELSE 0)
                            /\ rs' = Idle
                            /\ out' = ResolverReply(c.code, q,
                                                    IF c.calls = <<>> THEN "none" ELSE c.calls[1].kind)

ResolverFaults == {"none", "query", "send"}

----------------------------------------------------------------------------
(* api_get_status.py *)

StatusEvents ==
    [httpMethod : {"GET", "OPTIONS"}, sub : Users \cup {None},
     path_job : Jobs \cup {None}, query_job : {"j1", None}]

S3Outcomes ==
    {S3Found(PyJson("json object name: Ann", PyDict([name |-> PyStr("Ann")]))),
     S3Found(PyJson("json empty object", PyDict(<<>>))),
     S3Found(PyStr("not json")),
     S3Failed("NoSuchKey"), S3Failed("AccessDenied")}

\* get_structured_data: the parsed artifact, or None on any error
get_structured_data(s3) ==
    IF ~s3.ok THEN PyNone                          \* ClientError
    ELSE IF json_loads(s3.body).raised THEN PyNone \* any other exception
    ELSE json_loads(s3.body).value

\* an ownership test with the comparison inverted
owner_mismatch_inverted(job_owner_id, user_id) == Truthy(job_owner_id) /\ job_owner_id = user_id

\* the ownership test: `if job_owner_id and job_owner_id != user_id`
owner_mismatch(job_owner_id, user_id) == Truthy(job_owner_id) /\ job_owner_id # user_id

\* a 403 body that names the owner, as the handler's log line does
forbidden_body_with_owner(job_record) ==
    [error |-> "Forbidden: You do not have permission to access this job",
     job_owner_id |-> Get(job_record, "user_id")]

\* the body of the 403 response
forbidden_body(job_record) ==
    [error |-> "Forbidden: You do not have permission to access this job"]

\* lambda_handler of api_get_status: the response, and whether the artifact was fetched
get_status(t, ev, s3) ==
    LET job_id == IF Truthy(ev.path_job) THEN ev.path_job ELSE ev.query_job
        reply(code, body, fetched) ==
            [op |-> "get_status", httpMethod |-> ev.httpMethod, caller |-> ev.sub, job_id |-> job_id,
             statusCode |-> code, body |-> body, fetched |-> fetched]
            @@ (IF fetched THEN [artifact |-> s3] ELSE <<>>)
    IN  IF ev.httpMethod = "OPTIONS" THEN reply(200, <<>>, FALSE)
        ELSE IF ~Truthy(ev.sub)                   \* get_user_id_from_event raises ValueError
        THEN reply(401, [error |-> "Unauthorized: Invalid authentication"], FALSE)
        ELSE IF ~Truthy(job_id)
        THEN reply(400, [error |-> "Missing job_id parameter"], FALSE)
        ELSE IF ~ItemExists(t, job_id)
        THEN reply(404, [error |-> "Job not found", job_id |-> job_id], FALSE)
        ELSE LET job_record == t[job_id]
                 job_owner_id == Get(job_record, "user_id")
             IN  IF owner_mismatch(job_owner_id, ev.sub)
                 THEN reply(403, forbidden_body(job_record), FALSE)
                 ELSE IF Get(job_record, "status") = "COMPLETED"
                         /\ Truthy(Get(job_record, "structured_data_key"))
                 THEN IF PyTruthy(get_structured_data(s3))     \* `if structured_data:`
                      THEN reply(200, [structured_data |-> get_structured_data(s3)] @@ job_record, TRUE)
                      ELSE reply(200, job_record, TRUE)
                 ELSE reply(200, job_record, FALSE)

GetStatus(ev, s3) ==
    /\ out' = get_status(table, ev, s3)
    /\ writes' = <<>>
    /\ UNCHANGED <<table, gsi, now, issued, callbacks, path, rs, tr, stored>>

----------------------------------------------------------------------------
(* The system *)

\* the tables the upload API can have left behind: any jobs, each with its owner
UploadedTables ==
    UNION {{[j \in S |-> UploadRecord(j, owner[j])] : owner \in [S -> Users]} : S \in SUBSET Jobs}

Init ==
    /\ table \in UploadedTables
    /\ gsi = <<>>
    /\ now = 0
    /\ issued = {}
    /\ callbacks = <<>>
    /\ writes = <<>>
    /\ path = [j \in Jobs |-> 0]
    /\ rs = Idle
    /\ tr = Idle
    /\ stored = {}
    /\ out = [op |-> "none"]

(* The lifecycle: every step of the workflow invoked in any order, any number
   of times, on well-formed events; a resolver invocation runs to its end
   before the next step starts. *)

WellFormed(ev) == \A k \in DOMAIN ev : ev[k] # None

\* the task token is optional
WellFormedTrigger(ev) == Truthy(ev.job_id) /\ Truthy(ev.processed_key)

\* a step of the workflow may start
Ready == now < MaxClock /\ rs.pc = "idle"

Next ==
    \/ \E ev \in InitEvents, fault \in {"none", "copy"} :
          Ready /\ ev.kind = "s3" /\ Len(ev.parts) = 3 /\ Initialize(ev, fault)
    \/ \E ev \in InitEvents :
          Ready /\ ev.kind = "direct" /\ Truthy(ev.filename) /\ Initialize(ev, "none")
    \/ \E ev \in TriggerEvents : Ready /\ WellFormedTrigger(ev) /\ Trigger(ev, "none")
    \/ \E j \in Jobs : Ready /\ Extract(j, "bda-output/result.json", "none")
    \/ \E j \in Jobs : Ready /\ StoreStructuredData(j)
    \/ \E j \in Jobs : Ready /\ Complete(j, "none")
    \/ \E ev \in ErrorEvents : Ready /\ DOMAIN ev.d = {"job_id", "Error"} /\ HandleError(ev, "none")
    \/ \E j \in Jobs : IndexSync(j)
    \/ \E ev \in ResolverEvents :        \* the service notifies of operations it started
          WellFormed(ev) /\ ArnOf(ev.job_id) \in issued /\ ResolverStart(ev)
    \/ ResolverAttempt("none")

Spec == Init /\ [][Next]_vars

(* The status API, read against every record the workflow can have written *)

MaxReadClock == 2

ReadReady == now < MaxReadClock

ReadNext ==
    \/ \E ev \in InitEvents, fault \in {"none", "copy"} :
          ReadReady /\ ev.kind = "s3" /\ Len(ev.parts) = 3 /\ Initialize(ev, fault)
    \/ \E ev \in InitEvents :
          ReadReady /\ ev.kind = "direct" /\ Truthy(ev.filename) /\ Initialize(ev, "none")
    \/ \E ev \in TriggerEvents : ReadReady /\ WellFormedTrigger(ev) /\ Trigger(ev, "none")
    \/ \E j \in Jobs : ReadReady /\ Extract(j, "bda-output/result.json", "none")
    \/ \E j \in Jobs : ReadReady /\ StoreStructuredData(j)
    \/ \E j \in Jobs : ReadReady /\ Complete(j, "none")
    \/ \E ev \in ErrorEvents : ReadReady /\ HandleError(ev, "none")
    \/ \E ev \in StatusEvents, s3 \in S3Outcomes : GetStatus(ev, s3)

SpecRead == Init /\ [][ReadNext]_vars

(* The callback resolver, racing with the trigger step and the index *)

ResolverNext ==
    \/ \E ev \in TriggerEvents, fault \in {"none", "update"} :
          WellFormedTrigger(ev) /\ Trigger(ev, fault)
    \/ \E j \in Jobs : IndexSync(j)
    \/ \E ev \in ResolverEvents : ResolverStart(ev)
    \/ \E fault \in ResolverFaults : ResolverAttempt(fault)

SpecResolver == Init /\ [][ResolverNext]_vars

(* The error finalizer on arbitrary failure events, well-formed or not, once,
   on a job table as the upload API or the initialize step left it *)

FinalizerIds == {"j1", "j2"}

\* a string holding the JSON object with the one member job_id: id
JsonJob(id) == PyJson("json object job_id: " \o id, PyDict([job_id |-> PyStr(id)]))

\* the field absent, or present with one of the values
Field(key, values) == {[k \in {} |-> PyNone]} \cup {[k \in {key} |-> v] : v \in values}

FinalizerEvents ==
    {PyDict(a @@ b @@ c @@ d @@ e) :
        a \in Field("job_id", {PyStr(id) : id \in FinalizerIds} \cup {PyStr("")}),
        b \in Field("body", {JsonJob(id) : id \in FinalizerIds}
                             \cup {PyDict([job_id |-> PyStr("j2")]), PyDict([note |-> PyStr("n")]),
                                   PyStr("plain text"), PyJson("[1]", PyList)}),
        c \in Field("error", {PyDict([job_id |-> PyStr(id)]) : id \in FinalizerIds}
                              \cup {PyStr("Boom")}),
        d \in Field("Cause", {JsonJob(id) : id \in FinalizerIds}
                              \cup {PyJson("json empty object", PyDict(<<>>)), PyStr("plain text"),
                                    PyJson("[1]", PyList), PyInt(5)}),
        e \in Field("statusCode", {PyInt(k) : k \in {0, 399, 400, 404, 499, 500}}
                                   \cup {PyStr("404")})}
    \cup {PyStr("not an object"), PyList, PyNone}

FinalizerNext ==
    \/ \E ev \in InitEvents :
          /\ out.op = "none"
          /\ ev.kind = "s3" /\ Len(ev.parts) = 3
          /\ Initialize(ev, "none")
    \/ /\ out.op # "handle_error"
       /\ \E ev \in FinalizerEvents, fault \in ErrorFaults : HandleError(ev, fault)

SpecFinalizer == Init /\ [][FinalizerNext]_vars

(* The extraction engine on results documents of every modality, and the
   extract step on metadata and objects that are missing or malformed, once,
   for a job the upload API created *)

Modalities == {"VIDEO", "video", "DOCUMENT", "IMAGE", "AUDIO", ""}

Chapter(summary, words) ==
    [summary |-> summary,
     frames |-> IF words = <<>> THEN <<>> ELSE <<[text_words |-> <<>>], [text_words |-> words]>>]

ChapterLists ==
    {<<>>,
     <<Chapter("", <<>>)>>,
     <<Chapter("Intro", <<>>)>>,
     <<Chapter("", <<>>), Chapter("Outro", <<>>)>>,
     <<Chapter("Intro", <<>>), Chapter("Outro", <<>>)>>,
     <<Chapter("", <<"EXIT", "", "12">>)>>}

PageLists ==
    {<<>>,
     <<[page_index |-> 0, markdown |-> ""]>>,
     <<[page_index |-> 0, markdown |-> "# Title"],
       [page_index |-> 1, detected_page_number |-> 7, markdown |-> "Body"]>>}

EntityLists ==
    {<<>>,
     <<[type |-> "TABLE", summary |-> "Totals"]>>,
     <<[type |-> "FIGURE", summary |-> ""], [type |-> "FIGURE", summary |-> "A chart"]>>}

ResultDocuments ==
    [video : [transcript : {"", "hello"}, summary : {"", "A talk"}],
     chapters : ChapterLists,
     document : [description : {"", "An invoice"}, summary : {"", "Invoice for May"}],
     pages : PageLists,
     entities : EntityLists,
     image : [summary : {"", "A cat"}, text_words : {<<>>, <<"STOP", "">>}],
     audio : [transcript : {None, "", " ", "hello"}]]

ResultUri == "s3://bucket/bda-output/j1/0/standard_output/0/result.json"

\* metadata whose path to the results document is cut short or is no s3://bucket/key
MalformedMetadata ==
    {[semantic_modality |-> "VIDEO", output |-> o] :
        o \in {[at |-> "none"], [at |-> "asset"], [at |-> "segment"],
               [at |-> "path", uri |-> "https://bucket/result.json"],
               [at |-> "path", uri |-> "s3://bucket"]}}
    \cup {NoMetadata}

ResultObjects ==
    {ResultJson([EmptyResult EXCEPT !.video.transcript = "hello"]),
     S3Found(PyStr("not json")), S3Failed("NoSuchKey")}

ExtractionNext ==
    \/ /\ out.op = "none"
       /\ \E j \in DOMAIN table, m \in Modalities, result_data \in ResultDocuments :
             ExtractResults(j, [semantic_modality |-> m,
                                output |-> [at |-> "path", uri |-> ResultUri]],
                            ResultJson(result_data), "none")
    \/ /\ out.op = "none"
       /\ \E j \in Jobs \cup {None}, metadata \in MalformedMetadata \cup {MetadataAt("result.json")},
             result \in ResultObjects, fault \in ExtractionFaults :
             ExtractResults(j, metadata, result, fault)

SpecExtraction == Init /\ [][ExtractionNext]_vars

(* The trigger step racing with the completion notification of the analysis
   it starts: one trigger invocation, in two steps; the index catching up at
   any time; the service notifying of the operation at any time after it
   started; the resolver's loop always getting to run. *)

RaceNext ==
    \/ \E ev \in TriggerEvents : issued = {} /\ TriggerInvoke(ev)
    \/ TriggerUpdate
    \/ \E j \in Jobs : IndexSync(j)
    \/ \E ev \in ResolverEvents :
          /\ Truthy(ev.job_id)
          /\ ArnOf(ev.job_id) \in issued
          /\ Len(callbacks) < MaxCallbacks
          /\ ResolverStart(ev)
    \/ ResolverAttempt("none")

SpecRace == Init /\ [][RaceNext]_vars /\ WF_vars(ResolverAttempt("none"))

(* The two readers of the job store, the status API and the callback
   resolver, on every request and notification and with every collaborator
   failure, beside one trigger step and the index catching up *)

ReadersNext ==
    \/ \E ev \in TriggerEvents : issued = {} /\ WellFormedTrigger(ev) /\ Trigger(ev, "none")
    \/ \E j \in Jobs : IndexSync(j)
    \/ \E ev \in ResolverEvents : Len(callbacks) < MaxCallbacks /\ ResolverStart(ev)
    \/ \E fault \in ResolverFaults : ResolverAttempt(fault)
    \/ \E ev \in StatusEvents : GetStatus(ev, S3Failed("AccessDenied"))

SpecReaders == Init /\ [][ReadersNext]_vars

(* Every handler on every event, well-formed or not, with every collaborator
   failure, in any order *)

MaxStepClock == 2

StepReady == now < MaxStepClock

\* failure events: of a known job, without a job, and not an object at all
StepErrorEvents ==
    ErrorEvents
    \cup {PyNone, PyDict([Cause |-> PyInt(5)]),
          PyDict([job_id |-> PyStr("j1"), statusCode |-> PyStr("404")])}

StepsNext ==
    \/ \E ev \in InitEvents, fault \in InitFaults : StepReady /\ Initialize(ev, fault)
    \/ \E ev \in TriggerEvents, fault \in TriggerFaults : StepReady /\ Trigger(ev, fault)
    \/ \E j \in Jobs \cup {None}, metadata \in MalformedMetadata :
          StepReady /\ ExtractResults(j, metadata, ResultJson(EmptyResult), "none")
    \/ \E j \in Jobs, result \in ResultObjects, fault \in ExtractionFaults :
          StepReady /\ ExtractResults(j, MetadataAt("result.json"), result, fault)
    \/ \E j \in Jobs \cup {None}, fault \in CompleteFaults : StepReady /\ Complete(j, fault)
    \/ \E ev \in StepErrorEvents, fault \in ErrorFaults : StepReady /\ HandleError(ev, fault)
    \/ \E ev \in StatusEvents : StepReady /\ GetStatus(ev, S3Failed("AccessDenied"))

SpecSteps == Init /\ [][StepsNext]_vars

----------------------------------------------------------------------------
(* Properties of the job lifecycle (specification Spec) *)

NoStatus == "NONE"

\* the status attribute of job j, NoStatus while the record or the attribute is absent
StatusOf(t, j) == IF ItemExists(t, j) /\ Has(t[j], "status") THEN t[j].status ELSE NoStatus

\* the status values a step's update requests assigned to job j, in order
WrittenStatuses(ws, j) ==
    LET sel == SelectSeq(ws, LAMBDA w : w.job_id = j /\ Has(w.set, "status"))
    IN  [i \in 1..Len(sel) |-> sel[i].set.status]

NonTerminal == {"INITIALIZING", "PREPROCESSED", "BDA_PROCESSING", "EXTRACTING_RESULTS"}
Terminal == {"COMPLETED", "FAILED"}

\* the edges of the lifecycle graph
Edges ==
    {<<"INITIALIZING", "PREPROCESSED">>, <<"PREPROCESSED", "BDA_PROCESSING">>,
     <<"BDA_PROCESSING", "EXTRACTING_RESULTS">>, <<"EXTRACTING_RESULTS", "COMPLETED">>}
    \cup {<<s, "FAILED">> : s \in NonTerminal}

\* C1: every change of a job's status, each write of a step taken separately,
\* follows an edge of the lifecycle graph, in whatever order the steps are invoked
C1_StatusFollowsGraph ==
    [][\A j \in Jobs :
         LET chain == <<StatusOf(table, j)>> \o WrittenStatuses(writes', j)
         IN  table' # table =>
               \A i \in 1..(Len(chain) - 1) :
                    \/ chain[i] = NoStatus
                    \/ chain[i] = chain[i + 1]
                    \/ <<chain[i], chain[i + 1]>> \in Edges]_vars

\* C2: once a job's status is COMPLETED or FAILED no step changes it
C2_TerminalIsFinal ==
    [][\A j \in Jobs :
         StatusOf(table, j) \in Terminal => StatusOf(table', j) = StatusOf(table, j)]_vars

\* the status a job has after k steps of the failure-free path
HappyStatus ==
    <<"PREPROCESSED", "BDA_PROCESSING", "BDA_PROCESSING", "EXTRACTING_RESULTS", "COMPLETED">>

\* the callbacks of one kind delivered for job j
Delivered(cbs, j, kind) ==
    {i \in 1..Len(cbs) : cbs[i].job_id = j /\ cbs[i].kind = kind /\ cbs[i].delivered}

\* C3: on the failure-free path the statuses are written in the order
\* INITIALIZING, PREPROCESSED, BDA_PROCESSING, EXTRACTING_RESULTS, COMPLETED;
\* the BDA_PROCESSING write sets bda_invocation_id, the resolver sends the
\* success callback exactly once and writes nothing, and the COMPLETED write
\* sets completed_at
C3_FailureFreePath ==
    [][\A j \in Jobs :
         /\ (path[j] = 0 /\ path'[j] = 1) =>
                /\ StatusOf(table, j) = NoStatus
                /\ WrittenStatuses(writes', j) = <<"INITIALIZING", "PREPROCESSED">>
         /\ (path[j] = 1 /\ path'[j] = 2) =>
                /\ StatusOf(table, j) = "PREPROCESSED"
                /\ WrittenStatuses(writes', j) = <<"BDA_PROCESSING">>
                /\ Has(writes'[1].set, "bda_invocation_id")
                /\ table'[j].bda_invocation_id \in issued'
         /\ (path[j] = 2 /\ path'[j] = 3) =>
                /\ table' = table
                /\ callbacks' = Append(callbacks, [kind |-> "success", token |-> table[j].task_token,
                                                   job_id |-> j, delivered |-> TRUE])
         /\ (path[j] = 3 /\ path'[j] = 4) =>
                /\ StatusOf(table, j) = "BDA_PROCESSING"
                /\ WrittenStatuses(writes', j) = <<"EXTRACTING_RESULTS">>
         /\ (path[j] = 4 /\ path'[j] = 5) =>
                /\ StatusOf(table, j) = "EXTRACTING_RESULTS"
                /\ WrittenStatuses(writes', j) = <<"COMPLETED">>
                /\ Has(writes'[1].set, "completed_at")
                /\ Has(table'[j], "completed_at")
         /\ path'[j] \in 1..5 => StatusOf(table', j) = HappyStatus[path'[j]]
         /\ path'[j] \in 0..2 => Delivered(callbacks', j, "success") = {}
         /\ path'[j] \in 3..5 => Cardinality(Delivered(callbacks', j, "success")) = 1
         /\ path'[j] \in 0..5 => Delivered(callbacks', j, "failure") = {}]_vars

\* a job that ran the whole failure-free path
C3_Witness ==
    /\ path["j1"] = 5
    /\ StatusOf(table, "j1") = "COMPLETED"
    /\ Cardinality(Delivered(callbacks, "j1", "success")) = 1

\* C4: once bda_invocation_id or task_token is set on a record, no step changes
\* or removes it, a repeated trigger for the same job included
C4_CorrelationWriteOnce ==
    [][\A j \in DOMAIN table : \A a \in {"bda_invocation_id", "task_token"} :
         Has(table[j], a) =>
            /\ ItemExists(table', j)
            /\ Has(table'[j], a)
            /\ table'[j][a] = table[j][a]]_vars

----------------------------------------------------------------------------
(* Properties of the status read (specification SpecRead) *)

\* the last step was a GET by an authenticated caller that named a job
ReadBy(o) ==
    /\ o.op = "get_status"
    /\ o.httpMethod = "GET"
    /\ Truthy(o.caller)
    /\ Truthy(o.job_id)

\* ... whose record exists and belongs to another user
ForeignRead ==
    /\ ReadBy(out)
    /\ ItemExists(table, out.job_id)
    /\ Has(table[out.job_id], "user_id")
    /\ table[out.job_id].user_id \in Users \ {out.caller}

\* ... whose record does not exist
AbsentRead == ReadBy(out) /\ ~ItemExists(table, out.job_id)

\* the attribute names of job records and of the status response built from them
JobAttributes ==
    {"job_id", "user_id", "created_at", "status", "filename", "updated_at", "raw_key",
     "processed_key", "bda_invocation_id", "task_token", "transcript_key", "bda_output_key",
     "structured_data_key", "structured_data", "completed_at", "failed_at", "error_info"}

\* C5: a status read answers 200 only when the caller's identity equals the
\* record's user_id; a record without user_id is refused like any other
C5_OnlyOwnerReads ==
    (out.op = "get_status" /\ out.httpMethod = "GET" /\ out.statusCode = 200) =>
        /\ ItemExists(table, out.job_id)
        /\ Has(table[out.job_id], "user_id")
        /\ table[out.job_id].user_id = out.caller

EmptyTable == [j \in {} |-> <<>>]

\* the response to the same request had the job not existed
ResponseIfAbsent(o) ==
    get_status(EmptyTable, [httpMethod |-> o.httpMethod, sub |-> o.caller,
                            path_job |-> o.job_id, query_job |-> None], S3Failed("NoSuchKey"))

ReadAnswered == out.op = "get_status" /\ out.httpMethod = "GET" /\ out.statusCode = 200

\* C23: a read of a COMPLETED job that references an artifact fetches it and
\* inlines it when it can be fetched and parsed; when fetching or parsing fails
\* the read is still answered 200 with the stored record and no inlined field;
\* for a job in any other status the artifact is not fetched
C23_BestEffortInlining ==
    ReadAnswered =>
        LET record == table[out.job_id]
        IN  /\ out.fetched <=> /\ StatusOf(table, out.job_id) = "COMPLETED"
                               /\ Truthy(Get(record, "structured_data_key"))
            /\ ~out.fetched => out.body = record
            /\ out.fetched =>
                  IF out.artifact.ok /\ "json" \in DOMAIN out.artifact.body
                  THEN out.body = [structured_data |-> out.artifact.body.json] @@ record
                  ELSE out.body = record

----------------------------------------------------------------------------
(* Properties of the callback resolver (specification SpecResolver) *)

\* the resolver returned after these query results, in this order
Resolved(results) == out.op = "resolver" /\ out.results = results

\* C8: when the first two lookups find nothing and the third finds the row with
\* its token, get_task_token queries three times, sleeps 0.5 s and 1.0 s, and
\* the handler then sends the callback
C8_LagThenCallback ==
    Resolved(<<"empty", "empty", "row">>) =>
        /\ out.queries = 3
        /\ out.sleeps = <<500, 1000>>
        /\ out.sent \in {"success", "failure"}

\* C9: when every lookup finds nothing the resolver queries exactly five times,
\* sleeps between the attempts but not after the fifth, returns the not-found
\* error, sends no callback and writes nothing to the job store
C9_Exhaustion ==
    /\ rs.pc = "lookup" => rs.queries < max_attempts
    /\ Resolved(<<"empty", "empty", "empty", "empty", "empty">>) =>
          /\ out.queries = max_attempts
          /\ out.sleeps = <<500, 1000, 2000, 4000>>
          /\ out.statusCode = 400
          /\ out.sent = "none"
          /\ writes = <<>>
          /\ rs = Idle

\* five empty lookups, then the error
C9_Witness ==
    /\ Resolved(<<"empty", "empty", "empty", "empty", "empty">>)
    /\ out.statusCode = 400

\* C10: a row without task_token ends the lookup on the attempt that found it,
\* as an error, with no further query, no further sleep and no callback
C10_MissingTokenPermanent ==
    /\ rs.pc = "lookup" => \A i \in 1..Len(rs.results) : rs.results[i] = "empty"
    /\ (out.op = "resolver" /\ out.results # <<>>
        /\ out.results[Len(out.results)] = "row_no_token") =>
          /\ out.statusCode = 400
          /\ out.sent = "none"
          /\ out.queries = Len(out.results)
          /\ Len(out.sleeps) = out.queries - 1
          /\ rs = Idle

\* the row without token became visible to the second lookup
C10_Witness ==
    /\ Resolved(<<"empty", "row_no_token">>)
    /\ out.statusCode = 400

\* the resolver returned after a lookup that found the row with its token
LookupYielded == out.op = "resolver" /\ out.results # <<>>
                 /\ out.results[Len(out.results)] = "row"

\* C11: whenever the lookup yields the token, the resolver invokes exactly one
\* callback: success when the notification's detail-type indicates success,
\* failure otherwise, a notification without detail-type included
C11_CallbackForEveryShape ==
    LookupYielded =>
        out.sent = (IF out.detail_type = SUCCEEDED THEN "success" ELSE "failure")

\* the sleeps of the resolver invocation in progress, or of the last one
SleepsSoFar ==
    IF rs.pc = "lookup" THEN rs.sleeps
    ELSE IF out.op = "resolver" THEN out.sleeps ELSE <<>>

RECURSIVE SumSeq(_)
SumSeq(q) == IF q = <<>> THEN 0 ELSE Head(q) + SumSeq(Tail(q))

\* C12: the delay after failed attempt k (1 <= k <= 4) is min(0.5 * 2^(k-1), 8.0)
\* seconds (here in milliseconds), each delay doubles the previous one, none
\* exceeds the 8 s cap, and one invocation never sleeps more than 16.5 s in all
C12_BackoffBounded ==
    /\ Len(SleepsSoFar) <= 4
    /\ \A k \in 1..Len(SleepsSoFar) :
          /\ SleepsSoFar[k] = Min(500 * 2 ^ (k - 1), 8000)
          /\ k > 1 => SleepsSoFar[k] = 2 * SleepsSoFar[k - 1]
          /\ SleepsSoFar[k] <= 8000
    /\ SumSeq(SleepsSoFar) <= 16500

\* an invocation that slept after each of the first four attempts
C12_Witness ==
    /\ out.op = "resolver"
    /\ Len(out.sleeps) = 4
    /\ SumSeq(out.sleeps) = 7500

----------------------------------------------------------------------------
(* Properties of the error finalizer (specification SpecFinalizer) *)

\* the last step was an invocation of the error finalizer
FinalRun == out.op = "handle_error"

\* ... on an event that is an object
FinalRunOnDict == FinalRun /\ out.event.t = "dict"

\* the job_id of an object, none for anything else
JobIdIn(v) == IF v.t = "dict" THEN PyGet(v.d, "job_id") ELSE PyNone

\* what a JSON string decodes to, none for anything else
Decoded(v) == IF v.t = "str" /\ "json" \in DOMAIN v THEN v.json ELSE PyNone

\* the four fallback fields of an event, in priority order
Candidates(e) ==
    <<PyGet(e, "job_id"),
      IF PyGet(e, "body").t = "str" THEN JobIdIn(Decoded(PyGet(e, "body")))
      ELSE JobIdIn(PyGet(e, "body")),
      JobIdIn(PyGet(e, "error")),
      JobIdIn(Decoded(PyGet(e, "Cause")))>>

\* the first non-empty fallback field, "unknown" when there is none
FirstMatch(e) ==
    LET hits == {i \in 1..4 : PyTruthy(Candidates(e)[i])}
    IN  IF hits = {} THEN PyStr("unknown")
        ELSE Candidates(e)[CHOOSE i \in hits : \A k \in hits : i <= k]

\* the event makes the handler fail inside: it is no object, its status code
\* is no number, or its Cause is consulted and is no string holding an object
InternalFault(ev) ==
    \/ ev.t # "dict"
    \/ /\ ev.t = "dict"
       /\ \/ PyTruthy(PyGet(ev.d, "statusCode")) /\ PyGet(ev.d, "statusCode").t # "int"
          \/ /\ \A i \in 1..3 : ~PyTruthy(Candidates(ev.d)[i])
             /\ PyTruthy(PyGet(ev.d, "Cause"))
             /\ \/ PyGet(ev.d, "Cause").t # "str"
                \/ "json" \in DOMAIN PyGet(ev.d, "Cause")
                   /\ PyGet(ev.d, "Cause").json.t # "dict"

\* C13: the finalizer never raises: for every event, malformed ones included,
\* it returns a response with body.job_id, body.status = FAILED and
\* body.error_info.error_category; on an internal fault the response is the
\* fixed sentinel with job_id "unknown" and category server_error
C13_NeverRaises ==
    FinalRun =>
        /\ {"statusCode", "body"} \subseteq DOMAIN out
        /\ {"job_id", "status", "error_info"} \subseteq DOMAIN out.body
        /\ out.body.status = "FAILED"
        /\ "error_category" \in DOMAIN out.body.error_info
        /\ out.body.error_info.error_category \in {"client_error", "server_error"}
        /\ InternalFault(out.event) =>
              /\ out.statusCode = 500
              /\ out.body.job_id = "unknown"
              /\ out.body.error_info.error_category = "server_error"
              /\ out.body.error_info.error_type = PyStr("ErrorHandlerFailure")
              /\ out.body.message = "Critical error: error handler failed"

\* the finalizer answered an event that is no object with the sentinel
C13_Witness ==
    /\ FinalRun
    /\ out.event = PyNone
    /\ out.body.job_id = "unknown"

\* C14: whenever the fallback lookups recover a job id other than "unknown",
\* the finalizer applies the FAILED transition to that job (status = FAILED,
\* error_info, failed_at), whatever else the event holds
C14_RecoveredJobFails ==
    (FinalRunOnDict /\ FirstMatch(out.event.d) # PyStr("unknown")) =>
        /\ out.attempted
        /\ out.fault = "none" =>
              /\ Len(writes) = 1
              /\ writes[1].job_id = FirstMatch(out.event.d).s
              /\ {"status", "error_info", "failed_at"} \subseteq DOMAIN writes[1].set
              /\ writes[1].set.status = "FAILED"
              /\ StatusOf(table, writes[1].job_id) = "FAILED"

\* C15: when no fallback field holds a job id, the finalizer returns job_id
\* "unknown" and neither reads nor updates the job store
C15_UnknownJobUntouched ==
    (FinalRunOnDict /\ \A i \in 1..4 : ~PyTruthy(Candidates(out.event.d)[i])) =>
        /\ out.body.job_id = "unknown"
        /\ out.reads = 0
        /\ ~out.attempted
        /\ writes = <<>>

\* an event with an error and a plain-text cause, but no job id anywhere
C15_Witness ==
    /\ FinalRunOnDict
    /\ DOMAIN out.event.d = {"error", "Cause"}
    /\ out.event.d["Cause"] = PyStr("plain text")
    /\ out.body.job_id = "unknown"
    /\ out.body.error_info.error_message = PyStr("plain text")

\* C16: job-id recovery returns the first non-empty value among event.job_id,
\* the job_id of event.body (JSON string or object), the job_id of event.error
\* (object) and the job_id of the JSON-decoded event.Cause, and "unknown" when
\* there is none
C16_FirstMatchWins ==
    FinalRunOnDict => out.recovered = Returned(FirstMatch(out.event.d))

\* the status code classified from the event, 500 when there is none
ClassifiedStatus(e) ==
    IF PyTruthy(PyGet(e, "statusCode")) THEN PyGet(e, "statusCode").n ELSE 500

C18_Classification ==
    FinalRunOnDict =>
        LET sc == PyGet(out.event.d, "statusCode")
            client == sc.t = "int" /\ 400 <= sc.n /\ sc.n < 500
        IN  /\ out.body.error_info.error_category =
                  (IF client THEN "client_error" ELSE "server_error")
            /\ (sc.t = "int" /\ sc.n # 0) => out.statusCode = sc.n
            /\ sc.t = "none" => out.statusCode = 500

----------------------------------------------------------------------------
(* Properties of the writes (specification Spec) *)

\* C19: every write a step makes to a job record sets updated_at, to the time
\* of the write, in the same update
C19_WritesRefreshUpdatedAt ==
    \A i \in 1..Len(writes) :
        /\ Has(writes[i].set, "updated_at")
        /\ writes[i].set.updated_at = now
        /\ table[writes[i].job_id].updated_at = now

\* the finalizer wrote FAILED, after other steps had written
C19_Witness ==
    /\ now > 1
    /\ Len(writes) = 1
    /\ Has(writes[1].set, "failed_at")
    /\ writes[1].set.updated_at = now

\* the attributes the update requests ws name for job j
Named(ws, j) == UNION {DOMAIN ws[i].set : i \in {k \in 1..Len(ws) : ws[k].job_id = j}}

\* updates of pairwise different attributes
SampleUpdates ==
    {[transcript_key |-> "transcripts/j/transcript.txt"],
     [structured_data_key |-> "results/j/structured_data.json"],
     [bda_invocation_id |-> ArnOf("op1"), task_token |-> "t1"]}

\* updates of disjoint attribute sets give the same record in either order
Commute(t) ==
    \A j \in DOMAIN t : \A u1, u2 \in SampleUpdates :
        DOMAIN u1 \cap DOMAIN u2 = {} =>
            update_item(update_item(t, j, u1), j, u2) = update_item(update_item(t, j, u2), j, u1)

\* C20: a step's write changes only the attributes it names and leaves every
\* other attribute of the record as it was, so updates of disjoint attribute
\* sets commute on every record a step has written
C20_AttributeLevelUpdates ==
    [][/\ \A j \in DOMAIN table :
             /\ j \in DOMAIN table'
             /\ \A a \in DOMAIN table[j] \ Named(writes', j) :
                    a \in DOMAIN table'[j] /\ table'[j][a] = table[j][a]
       /\ \A j \in DOMAIN table' :
             DOMAIN table'[j] \subseteq
                (IF j \in DOMAIN table THEN DOMAIN table[j] ELSE {"job_id"}) \cup Named(writes', j)
       /\ table' # table => Commute(table')]_vars

\* the finalizer's write kept what the upload, the trigger and the extraction wrote
C20_Witness ==
    /\ ItemExists(table, "j1")
    /\ Len(writes) = 1
    /\ Has(writes[1].set, "failed_at")
    /\ {"user_id", "bda_invocation_id", "transcript_key"} \subseteq DOMAIN table["j1"]
    /\ table["j1"].status = "FAILED"

\* the item without the attributes attrs
Without(item, attrs) == [a \in DOMAIN item \ attrs |-> item[a]]

\* this step is the step before it invoked again on the same input, and it wrote:
\* the same handler, for the same job, with the same event (finalizer) or the
\* same successful response (the other steps)
SameTransitionAgain ==
    /\ writes' # <<>>
    /\ out'.op = out.op
    /\ "body" \in DOMAIN out /\ "body" \in DOMAIN out'
    /\ out'.body.job_id = out.body.job_id
    /\ IF out.op = "handle_error"
       THEN out'.event = out.event /\ out'.fault = out.fault
       ELSE out'.body = out.body

\* C21: applying the same transition twice (same step, same input) leaves the
\* record as one application left it, in every attribute other than
\* updated_at: completed_at, failed_at and error_info included
C21_TransitionIdempotent ==
    [][SameTransitionAgain =>
          \A j \in DOMAIN table :
              Without(table'[j], {"updated_at"}) = Without(table[j], {"updated_at"})]_vars

\* C22: a job record comes into existence only by the initialize step, with
\* status INITIALIZING: no other step creates a record
C22_OnlyInitializeCreates ==
    [][\A j \in Jobs :
         (~ItemExists(table, j) /\ ItemExists(table', j)) =>
            /\ out'.op = "initialize"
            /\ WrittenStatuses(writes', j) # <<>>
            /\ WrittenStatuses(writes', j)[1] = "INITIALIZING"]_vars

\* C30: in every reachable state a record carries the attributes of the
\* transition that set its status: BDA_PROCESSING has bda_invocation_id,
\* EXTRACTING_RESULTS has transcript_key, COMPLETED has completed_at, FAILED
\* has failed_at and error_info
C30_StatusCarriesAttributes ==
    \A j \in DOMAIN table :
        /\ StatusOf(table, j) = "BDA_PROCESSING" => Truthy(Get(table[j], "bda_invocation_id"))
        /\ StatusOf(table, j) = "EXTRACTING_RESULTS" => Truthy(Get(table[j], "transcript_key"))
        /\ StatusOf(table, j) = "COMPLETED" => Has(table[j], "completed_at")
        /\ StatusOf(table, j) = "FAILED" => {"failed_at", "error_info"} \subseteq DOMAIN table[j]

\* a job failed by the finalizer while the analysis was running
C30_Witness ==
    /\ StatusOf(table, "j1") = "FAILED"
    /\ Has(table["j1"], "bda_invocation_id")
    /\ ~Has(table["j1"], "transcript_key")
    /\ table["j1"].failed_at = now

----------------------------------------------------------------------------
(* Properties of the extraction engine (specification SpecExtraction) *)

\* the last step was the extract step, for a job, on a results document it
\* fetched and parsed, with no collaborator failing
Extracted ==
    /\ out.op = "extract"
    /\ out.fault = "none"
    /\ Truthy(out.job)
    /\ "output" \in DOMAIN out.metadata
    /\ out.metadata.output = [at |-> "path", uri |-> ResultUri]
    /\ out.result.ok
    /\ "json" \in DOMAIN out.result.body

\* the results document of that step, and the modality its metadata declares
ResultData == out.result.body.json
Declared == out.metadata.semantic_modality

\* the label line of a declared modality
Label(m) ==
    CASE m \in {"VIDEO", "video"} -> "MODALITY: video"
      [] m \in {"DOCUMENT", "document"} -> "MODALITY: document"
      [] m \in {"IMAGE", "image"} -> "MODALITY: image"
      [] m \in {"AUDIO", "audio"} -> "MODALITY: audio"
      [] OTHER -> "MODALITY: "

\* the section headings of the content
Headings ==
    {"Audio Transcript:", "Video Summary:", "Chapter Summaries:", "Text Detected in Video:",
     "Document Description (Brief):", "Document Summary:", "Figure Descriptions:",
     "DOCUMENT CONTENT BY PAGE", "Image Summary:", "Extracted Text (OCR):"}

\* the headings that occur in the content
HeadingsIn(content) == {h \in Headings : Contains(content, h)}

\* C24: every successfully extracted content begins with the line
\* "MODALITY: m", m the modality declared in the job's metadata, also when the
\* declared modality's own sections are all empty and an audio transcript is
\* present
C24_LabelIsDeclaredModality ==
    (Extracted /\ out.statusCode = 200 /\ Declared # "") =>
        StartsWith(out.body.content, Label(Declared) \o "\n")

\* a video's chapters, transcript, summary and frame text
OnlyChapterSummaries(result_data) ==
    /\ result_data.video.transcript = ""
    /\ result_data.video.summary = ""
    /\ \A i \in 1..Len(result_data.chapters) :
          \A f \in 1..Len(result_data.chapters[i].frames) :
             \A w \in 1..Len(result_data.chapters[i].frames[f].text_words) :
                result_data.chapters[i].frames[f].text_words[w] = ""
    /\ \E i \in 1..Len(result_data.chapters) : result_data.chapters[i].summary # ""

\* C25: for a video results document in which only chapter summaries are
\* populated, the content is the "MODALITY: video" label followed by one
\* "Chapter Summaries" section and nothing else, its entries numbered from 1
C25_ChapterSummariesFromOne ==
    (Extracted /\ Declared \in {"VIDEO", "video"} /\ OnlyChapterSummaries(ResultData)) =>
        /\ out.statusCode = 200
        /\ StartsWith(out.body.content, "MODALITY: video\n\nChapter Summaries:\nChapter 1:\n")
        /\ HeadingsIn(out.body.content) = {"Chapter Summaries:"}

\* a document with no page and no entity but a summary
SummaryOnly(result_data) ==
    /\ result_data.pages = <<>>
    /\ result_data.entities = <<>>
    /\ result_data.document.summary # ""

\* a document with no text in any section, and no audio transcript
NothingToExtract(result_data) ==
    /\ result_data.document.description = ""
    /\ result_data.document.summary = ""
    /\ \A i \in 1..Len(result_data.pages) : result_data.pages[i].markdown = ""
    /\ \A i \in 1..Len(result_data.entities) :
          result_data.entities[i].type = "FIGURE" => result_data.entities[i].summary = ""
    /\ result_data.audio.transcript \in {None, "", " "}

\* C26: for a document results document with zero pages, zero entities and a
\* non-empty document.summary the content is the modality label and the
\* summary section alone; with every document section empty and no audio
\* transcript the extraction fails with ExtractionError
C26_SummaryAlone ==
    /\ (Extracted /\ Declared = "DOCUMENT" /\ SummaryOnly(ResultData)) =>
          /\ out.statusCode = 200
          /\ out.body.content = "MODALITY: document\n\nDocument Summary:\n"
                                    \o ResultData.document.summary
    /\ (Extracted /\ Declared = "DOCUMENT" /\ NothingToExtract(ResultData)) =>
          /\ out.statusCode = 400
          /\ out.error = "ExtractionError"

\* C26, as the code has it: with zero pages, zero entities and a non-empty
\* document.summary the content is the modality label, the brief-description
\* section when document.description is not empty, and the summary section,
\* in this order and nothing else; with every document section empty and no
\* audio transcript the extraction fails with ExtractionError and nothing is
\* written
C26_DescriptionAndSummary ==
    /\ (Extracted /\ Declared = "DOCUMENT" /\ SummaryOnly(ResultData)) =>
          /\ out.statusCode = 200
          /\ out.body.content =
                (IF ResultData.document.description = ""
                 THEN "MODALITY: document\n\nDocument Summary:\n"
                          \o ResultData.document.summary
                 ELSE "MODALITY: document\n\nDocument Description (Brief):\n"
                          \o ResultData.document.description
                          \o "\n\nDocument Summary:\n" \o ResultData.document.summary)
    /\ (Extracted /\ Declared = "DOCUMENT" /\ NothingToExtract(ResultData)) =>
          /\ out.statusCode = 400
          /\ out.error = "ExtractionError"
          /\ out.message = "No extractable content found in result.json for modality DOCUMENT"
          /\ writes = <<>>

\* a document with a description and a summary, no page and no entity, extracted
C26_Witness ==
    /\ Extracted
    /\ Declared = "DOCUMENT"
    /\ SummaryOnly(ResultData)
    /\ ResultData.document.description = "An invoice"
    /\ out.statusCode = 200
    /\ HeadingsIn(out.body.content) = {"Document Description (Brief):", "Document Summary:"}


----------------------------------------------------------------------------
(* Properties of the handlers' error outcomes (specification SpecSteps) *)

WorkflowSteps == {"initialize", "trigger", "extract", "complete"}

\* the finalizer answered with its sentinel payload
Sentinel ==
    /\ out.op = "handle_error"
    /\ "body" \in DOMAIN out
    /\ out.body.error_info.error_type = PyStr("ErrorHandlerFailure")

\* the message texts of the error response just returned
ErrorTexts ==
    IF out.op \in WorkflowSteps /\ out.statusCode # 200 THEN {out.message}
    ELSE IF out.op = "get_status" /\ out.statusCode # 200 THEN {out.body.error}
    ELSE IF Sentinel THEN {out.body.error_info.error_message.s, out.body.message}
    ELSE {}

\* the exceptions a handler can catch from a collaborator or from its own code
ExceptionKinds == {"ClientError", "IndexError", "JSONDecodeError", "AttributeError", "TypeError"}

\* C27: no error response of the status API, of a workflow step or of the
\* error finalizer (its sentinel payload included) contains the text of a
\* caught exception
C27_NoExceptionText ==
    \A text \in ErrorTexts : \A e \in ExceptionKinds : ~Contains(text, str_e(e))

\* the positions of the record updates that failed, among the calls of the step
FailedUpdates ==
    {i \in 1..Len(out.calls) : out.calls[i] = Call("update_item", FALSE)}

\* the record updates that succeeded, among the calls of the step
AppliedUpdates ==
    {i \in 1..Len(out.calls) : out.calls[i] = Call("update_item", TRUE)}

\* C28: in initialize, trigger, extract and complete a record update that
\* fails at the storage layer is the last thing the step does: the step
\* answers with an error (no statusCode 200, no body), calls no collaborator
\* after it, and the record holds the updates applied before it and no other
C28_FailedWritePropagates ==
    (out.op \in WorkflowSteps) =>
        /\ \A i \in FailedUpdates :
              /\ i = Len(out.calls)
              /\ out.statusCode # 200
              /\ "body" \notin DOMAIN out
              /\ "error" \in DOMAIN out
        /\ Len(writes) = Cardinality(AppliedUpdates)
        /\ out.statusCode = 200 => \A i \in 1..Len(out.calls) : out.calls[i].ok

\* initialize's second update failed after the first was applied and the
\* file was copied
C28_Witness ==
    /\ out.op = "initialize"
    /\ out.calls = <<Call("update_item", TRUE), Call("copy_object", TRUE),
                     Call("update_item", FALSE)>>
    /\ out.statusCode = 400
    /\ Len(writes) = 1
    /\ \E j \in DOMAIN table : Get(table[j], "status") = "INITIALIZING"


----------------------------------------------------------------------------
(* Properties of the trigger/notification race (specification SpecRace) *)

\* the step on which a resolver invocation returns
ResolverEnds == rs.pc = "lookup" /\ rs'.pc = "idle"

\* the token stored with the invocation ARN the resolver looked up
StoredTokens ==
    {table[j].task_token : j \in {k \in DOMAIN table : Get(table[k], "bda_invocation_id") = rs.arn
                                                      /\ Has(table[k], "task_token")}}

\* C29: the notification may arrive at any point after the analysis started,
\* before the trigger's update of the record included. Every resolver
\* invocation ends; when the row became visible through the index to one of
\* its five queries it has sent exactly one callback, with the stored token;
\* when all five queries found nothing it has sent none
C29_RaceResolved ==
    /\ [][ResolverEnds =>
            /\ out'.results[Len(out'.results)] = "row" =>
                  /\ Len(callbacks') = Len(callbacks) + 1
                  /\ callbacks'[Len(callbacks')].token \in StoredTokens
            /\ out'.results = <<"empty", "empty", "empty", "empty", "empty">> =>
                  callbacks' = callbacks]_vars
    /\ (rs.pc = "lookup") ~> (rs.pc = "idle")

----------------------------------------------------------------------------
(* Properties of the started analysis operations (specification SpecResolver) *)

\* the operations a record names as its bda_invocation_id
Joinable == {table[j].bda_invocation_id : j \in {k \in DOMAIN table : Has(table[k], "bda_invocation_id")}}

\* C31: once the trigger step has returned, every analysis operation it has
\* started is stored as bda_invocation_id on a job's record, also when the
\* record update that follows the invocation failed
C31_StartedIsJoinable ==
    tr.pc = "idle" => issued \subseteq Joinable

----------------------------------------------------------------------------
(* Properties of the order of effects within a step (specification SpecSteps) *)

\* C32: a record has transcript_key (and with it status EXTRACTING_RESULTS
\* from the extract step) only when an object exists at that key in the
\* content store; and an extract step that fails before its record update
\* (missing metadata, invalid locator, unparseable results, no content, or a
\* failed put of the content) writes no content object and leaves the job
\* record unchanged
C32_ContentBeforeStatus ==
    /\ [](\A j \in DOMAIN table :
            Has(table[j], "transcript_key") => table[j].transcript_key \in stored)
    /\ [][(/\ out'.op = "extract"
           /\ out'.statusCode # 200
           /\ \A i \in 1..Len(out'.calls) : out'.calls[i] # Call("update_item", FALSE))
          => /\ stored' = stored
             /\ table' = table
             /\ writes' = <<>>]_vars

\* the put of the content failed: no object, and the record as the upload left it
C32_Witness ==
    /\ out.op = "extract"
    /\ out.statusCode = 400
    /\ out.calls # <<>>
    /\ out.calls[Len(out.calls)] = Call("put_object", FALSE)
    /\ stored = {}
    /\ \E j \in DOMAIN table : ~Has(table[j], "transcript_key") /\ ~Has(table[j], "status")

\* the update requests of the last step that set status to s
StatusWrites(s) == {i \in 1..Len(writes) : Get(writes[i].set, "status") = s}

\* C33: the initialize step writes PREPROCESSED only after copy_object
\* succeeded; when the copy fails the step answers with an error, issues no
\* PREPROCESSED write and leaves the record at INITIALIZING
C33_CopyBeforePreprocessed ==
    (out.op = "initialize") =>
        /\ StatusWrites("PREPROCESSED") # {} =>
              \E k \in 1..Len(out.calls) :
                 /\ out.calls[k] = Call("copy_object", TRUE)
                 /\ k < Len(out.calls)
                 /\ out.calls[Len(out.calls)] = Call("update_item", TRUE)
        /\ (\E k \in 1..Len(out.calls) : out.calls[k] = Call("copy_object", FALSE)) =>
              /\ out.statusCode # 200
              /\ "error" \in DOMAIN out
              /\ StatusWrites("PREPROCESSED") = {}
              /\ StatusWrites("INITIALIZING") = {1}
              /\ table[writes[1].job_id].status = "INITIALIZING"

\* the copy failed after the record was created
C33_Witness ==
    /\ out.op = "initialize"
    /\ out.calls = <<Call("update_item", TRUE), Call("copy_object", FALSE)>>
    /\ out.statusCode = 400
    /\ \E j \in DOMAIN table : Get(table[j], "status") = "INITIALIZING"

----------------------------------------------------------------------------
(* Properties of the status read's checks (specification SpecRead) *)

\* the status code the precedence of the checks gives the request just answered
ExpectedStatusCode ==
    IF out.httpMethod = "OPTIONS" THEN 200
    ELSE IF ~Truthy(out.caller) THEN 401
    ELSE IF ~Truthy(out.job_id) THEN 400
    ELSE IF out.job_id \notin DOMAIN table THEN 404
    ELSE IF Get(table[out.job_id], "user_id") # out.caller THEN 403
    ELSE 200

\* C34: a status read that is not an OPTIONS request is answered 401 when no
\* caller identity can be extracted, else 400 when no job_id is given, else 404
\* when no record exists, else 403 when the caller is not the record's owner,
\* else 200; an OPTIONS request is answered 200 with an empty body and without
\* reading the artifact
C34_CheckPrecedence ==
    (out.op = "get_status") =>
        /\ out.statusCode = ExpectedStatusCode
        /\ out.httpMethod = "OPTIONS" => out.body = <<>> /\ ~out.fetched

----------------------------------------------------------------------------
(* Properties of the readers of the job store (specification SpecReaders) *)

\* C35: a status read and a step of the callback resolver, whatever the input
\* and the outcome, issue no update and leave every attribute of every job
\* record as it was, a resolver invoked again for the same notification included
C35_ReadersWriteNothing ==
    [][(out'.op = "get_status" \/ rs' # rs) => (table' = table /\ writes' = <<>>)]_vars

\* the resolver ran twice for the same notification and the record still holds the token
C35_Witness ==
    /\ out.op = "resolver"
    /\ Len(callbacks) = 2
    /\ callbacks[1] = callbacks[2]
    /\ \E j \in DOMAIN table : Get(table[j], "task_token") = callbacks[1].token

----------------------------------------------------------------------------
(* Properties of the steps' validation (specification SpecSteps) *)

\* C36: the trigger step on an input without job_id or without processed_key
\* answers with an error, and neither invokes the analysis service nor writes
\* to the job store
C36_TriggerValidationFirst ==
    [][(/\ out'.op = "trigger"
        /\ out'.event.job_id = None \/ out'.event.processed_key = None)
       => /\ out'.statusCode = 400
          /\ out'.error = "BDATriggerError"
          /\ out'.calls = <<>>
          /\ issued' = issued
          /\ table' = table
          /\ writes' = <<>>]_vars

\* a trigger without processed_key, refused, on a table that holds the job
C36_Witness ==
    /\ out.op = "trigger"
    /\ out.event.job_id = "j1"
    /\ out.event.processed_key = None
    /\ out.statusCode = 400
    /\ issued = {}
    /\ "j1" \in DOMAIN table

----------------------------------------------------------------------------
(* Properties of the resolver's failed queries (specification SpecResolver) *)

\* C37: a query of the index that raises a store error ends the lookup on
\* that attempt, as an error, with no further query, no sleep after it and no
\* callback; the attempts before it all found no row, the only result that is
\* retried
C37_QueryErrorNotRetried ==
    /\ rs.pc = "lookup" => \A i \in 1..Len(rs.results) : rs.results[i] # "error"
    /\ (out.op = "resolver" /\ out.results # <<>>
        /\ out.results[Len(out.results)] = "error") =>
          /\ out.statusCode = 400
          /\ out.sent = "none"
          /\ out.queries = Len(out.results)
          /\ Len(out.sleeps) = out.queries - 1
          /\ \A i \in 1..(Len(out.results) - 1) : out.results[i] = "empty"
          /\ rs = Idle

\* the query failed on the second attempt
C37_Witness ==
    /\ Resolved(<<"empty", "error">>)
    /\ out.statusCode = 400
    /\ out.sleeps = <<500>>

----------------------------------------------------------------------------
(* Properties of the complete step (specification SpecSteps) *)

\* C38: the complete step invoked for a job_id that has no record returns an
\* error, writes nothing (no status COMPLETED) and leaves the job without a
\* record
C38_CompleteNeedsRecord ==
    [][(out'.op = "complete" /\ Truthy(out'.job) /\ out'.job \notin DOMAIN table) =>
          /\ out'.statusCode # 200
          /\ "error" \in DOMAIN out'
          /\ writes' = <<>>
          /\ table' = table
          /\ out'.job \notin DOMAIN table']_vars

\* the record was looked up, not found, and the step answered "Job not found"
C38_Witness ==
    /\ out.op = "complete"
    /\ Truthy(out.job)
    /\ out.job \notin DOMAIN table
    /\ writes = <<>>
    /\ out.statusCode = 400
    /\ out.message = "Job not found: " \o out.job
    /\ out.calls = <<Call("get_item", TRUE)>>

----------------------------------------------------------------------------
(* Properties of the video content (specification SpecExtraction) *)

\* the first position of t in s, 0 when t does not occur
Position(s, t) ==
    LET at == {i \in 1..(Len(s) - Len(t) + 1) : SubSeq(s, i, i + Len(t) - 1) = t}
    IN  IF at = {} THEN 0 ELSE CHOOSE i \in at : \A k \in at : i <= k

\* the video sections in their order, and the source text of each in a
\* results document
VideoHeadings ==
    <<"Audio Transcript:", "Video Summary:", "Chapter Summaries:", "Text Detected in Video:">>

FrameWords(result_data) ==
    Flatten([i \in 1..Len(result_data.chapters) |->
        Flatten([f \in 1..Len(result_data.chapters[i].frames) |->
            result_data.chapters[i].frames[f].text_words])])

VideoSource(result_data) ==
    <<result_data.video.transcript,
      result_data.video.summary,
      Join([i \in 1..Len(result_data.chapters) |-> result_data.chapters[i].summary], ""),
      Join(FrameWords(result_data), "")>>

\* the content of a declared video: its headings are those of the sections
\* with a source text, in the fixed order; the chapter summaries are in
\* chapter order; the frame words are space-joined in document order
VideoSections(content, result_data) ==
    /\ \A k \in 1..4 :
          Contains(content, VideoHeadings[k]) <=> VideoSource(result_data)[k] # ""
    /\ \A k, l \in 1..4 :
          (k < l /\ Contains(content, VideoHeadings[k]) /\ Contains(content, VideoHeadings[l])) =>
              Position(content, VideoHeadings[k]) < Position(content, VideoHeadings[l])
    /\ \A i, k \in 1..Len(result_data.chapters) :
          (i < k /\ result_data.chapters[i].summary # "" /\ result_data.chapters[k].summary # "") =>
              /\ Position(content, result_data.chapters[i].summary) > 0
              /\ Position(content, result_data.chapters[i].summary)
                    < Position(content, result_data.chapters[k].summary)
    /\ VideoSource(result_data)[4] # "" =>
          Contains(content, "Text Detected in Video:\n"
                            \o Join(SelectSeq(FrameWords(result_data), LAMBDA w : w # ""), " "))

\* C39: for video modality the extracted content lists its sections in the
\* fixed order Audio Transcript, Video Summary, Chapter Summaries, Text
\* Detected in Video; a section header appears in the content if and only if
\* its source text is non-empty; chapter summaries appear in chapter order and
\* frame text tokens are space-joined in document order
C39_VideoSectionsInOrder ==
    (Extracted /\ Declared \in {"VIDEO", "video"} /\ out.statusCode = 200) =>
        VideoSections(out.body.content, ResultData)

=============================================================================
